---- MODULE Spec2Model ----
(***************************************************************************)
(* A model of the session handling of goauth: the InMemoryHandler          *)
(* (an in-memory map guarded by a sync.RWMutex), the SessionController     *)
(* built on it, and the MemcachedSessionHandler wrapping a parent handler. *)
(* Time is an integer clock; a *SessionKeyData is <<>> (nil) or <<record>>.*)
(***************************************************************************)
EXTENDS Integers, Sequences, FiniteSets, TLC

\* ---------------------------------------------------------------- bounds
MaxTime == 2
MaxDuration == 1
MinDuration == 0 - 1
MaxID == 2
TicksPerSecond == 2

Users == {"u1", "u2"}
Tokens == {"k1", "k2"}
Procs == {"p1", "p2"}
Durations == MinDuration..MaxDuration
\* The concurrent callers all ask for the same validity.
ConcDurations == {MaxDuration}
\* The sessions the memcached handler is asked to create: a token is drawn for
\* one user.
OwnedTokens == {<<"u1", "k1">>, <<"u2", "k2">>}
Names == {"alice", "bob"}
Passwords == {"pw1", "pw2"}
\* A token that, once its record is gone, is drawn again, also for another user.
ReusedTokens == {"k1"}
\* The values r.Int() can yield for the memcached session key identifier.
Idents == {0, 1}

VARIABLES
    keys,    \* InMemoryHandler.keys: a map, token -> SessionKeyData
    mutex,   \* InMemoryHandler.mutex: [w: the writer or "", r: the readers]
    clock,   \* the wall clock time.Now() reads
    call,    \* the last call made: its operation, arguments and locals
    ret,     \* what the last call returned
    life,    \* history: per token, the last call that created or removed it
    pc,      \* concurrent callers: the position of each goroutine
    frame,   \* concurrent callers: the arguments and locals of each one's call
    result,  \* concurrent callers: what each one's call returned
    mcIdent, \* MemcachedSessionHandler.currentSessionKeyIdentifier
    cache,   \* the memcached server: memcached key -> [value, exp]
    sessions, \* the SQL table user_sessions: session_key -> row
    userHandler, \* which UserHandler is in use: "sql" or "redis"
    users,    \* its accounts: username -> [id, password]
    nextID,   \* the last id given out (SERIAL column, or the redis counter)
    known,    \* per username: the id an Insert returned and the password in force
    daemon,   \* the goroutines of DeleteEntriesDaemon, its context and channel
    redis,    \* RedisSessionHandler: db, the redis server (key -> value), and
              \* jobs, the goroutines CreateEntry started that have not run yet
    blockDB,  \* SQLSessionHandler.blockDB: the lockDB it was constructed with
    table     \* SQLSessionHandler: its table, session_key -> row

vars == <<keys, mutex, clock, call, ret, life, pc, frame, result, mcIdent, cache,
          sessions, userHandler, users, nextID, known, daemon, redis, blockDB, table>>

\* The state of the stores a handler does not use.
accounts == <<userHandler, users, nextID, known>>
sqlHandler == <<blockDB, table>>
extra == <<daemon, redis, sqlHandler>>
other == <<sessions, accounts, extra>>

\* ------------------------------------------------------- values and errors
Nil == <<>>
NoErr == "nil"
NoKey == ""
ErrKeyNotFound == "No entry for key was found"
ErrInvalidKey == "The key is not valid any more."
ErrNotAuthSession == "The session is not a valid auth session."
ErrKeyExists == "Key already exists"
ErrRandom == "Can't generate random bytes"
ErrLookup == "Internal lookup error"
ErrStore == "store.Get failed"

\* What a request's gorilla session holds for ValidateSession / EndSession:
\* the store fails, no "key" value, a "key" value that is no string, or a key.
StoreFails == "<store error>"
NoAuthKey == "<no key>"
NotAString == "<not a string>"
Sessions == Tokens \cup {StoreFails, NoAuthKey, NotAString}

NewSessionKeyData(user, creationTime, validUntil) ==
    [User |-> user, CreationTime |-> creationTime, ValidUntil |-> validUntil]

CurrentTime == clock

CurrentTimeKeyData(user, validDuration) ==
    LET now == CurrentTime
        validUntil == now + validDuration
    IN  NewSessionKeyData(user, now, validUntil)

\* A key counted invalid already at the instant it expires.
KeyInvalidAtExpiry(now, validUntil) == now >= validUntil

KeyInvalid(now, validUntil) == now > validUntil

KeyValid(now, validUntil) == ~KeyInvalid(now, validUntil)

\* ------------------------------------------------------------ Go map steps
MapPut(m, key, value) ==
    [k \in (DOMAIN m) \cup {key} |-> IF k = key THEN value ELSE m[k]]

MapDelete(m, key) == [k \in (DOMAIN m) \ {key} |-> m[k]]

\* ------------------------------------------------------------ sync.RWMutex
MutexFree == [w |-> "", r |-> {}]
\* A Lock that never waits (a handler without mutual exclusion).
CanLockAlways(m) == TRUE

CanLock(m) == m.w = "" /\ m.r = {}
CanRLock(m) == m.w = ""
LockBy(m, p) == [m EXCEPT !.w = p]
Unlock(m) == [m EXCEPT !.w = ""]
RLockBy(m, p) == [m EXCEPT !.r = @ \cup {p}]
RUnlockBy(m, p) == [m EXCEPT !.r = @ \ {p}]

\* --------------------------------------------------- calls and return values
NoCall == [op |-> "", key |-> NoKey, user |-> "", dur |-> 0, now |-> 0, creates |-> 0,
           rand |-> "", cacheGet |-> "", parent |-> 0, set |-> "", del |-> "",
           column |-> "", db |-> "", newKey |-> NoKey, removed |-> <<>>,
           name |-> "", pw |-> "", uid |-> 0]
NoRet == [data |-> Nil, key |-> NoKey, err |-> NoErr, count |-> 0, maxAge |-> 0,
          id |-> Nil, uid |-> 0, ok |-> FALSE]
NoLife == [op |-> "none", user |-> "", data |-> Nil, pop |-> FALSE]
\* No daemon started: no context, no goroutine, no channel, no helper.
NoDaemon == [ctx |-> "none", pc |-> "off", next |-> 0, sleeping |-> 0, sending |-> 0,
             sweeps |-> 0]

\* An empty redis server and no goroutine of CreateEntry.
NoRedis == [db |-> <<>>, jobs |-> {}]

\* Nothing started and an empty redis server.
InitExtra == daemon = NoDaemon /\ redis = NoRedis /\ blockDB = FALSE /\ table = <<>>

NoFrame == [op |-> "", key |-> NoKey, user |-> "", dur |-> 0, now |-> 0, fresh |-> FALSE,
            name |-> "", pw |-> "", id |-> 0, data |-> Nil, column |-> "", db |-> ""]

Init ==
    /\ keys = <<>>
    /\ mutex = MutexFree
    /\ clock = 0
    /\ call = NoCall
    /\ ret = NoRet
    /\ life = [k \in Tokens |-> NoLife]
    /\ pc = [p \in Procs |-> "idle"]
    /\ frame = [p \in Procs |-> NoFrame]
    /\ result = [p \in Procs |-> NoRet]
    /\ mcIdent = 0
    /\ cache = <<>>
    /\ sessions = <<>>
    /\ userHandler = ""
    /\ users = <<>>
    /\ nextID = 0
    /\ known = [n \in Names |-> Nil]
    /\ InitExtra

\* ---------------------------------------------- InMemoryHandler, under lock
\* A lookup that filters expired records out, as a query with the expiry in it would.
GetDataResultFiltering(m, key) ==
    IF key \in DOMAIN m /\ KeyValid(CurrentTime, m[key].ValidUntil)
    THEN [data |-> <<m[key]>>, err |-> NoErr]
    ELSE [data |-> Nil, err |-> ErrKeyNotFound]

GetDataResult(m, key) ==
    IF key \in DOMAIN m
    THEN [data |-> <<m[key]>>, err |-> NoErr]
    ELSE [data |-> Nil, err |-> ErrKeyNotFound]

CreateEntryResult(m, user, key, validDuration) ==
    IF key \in DOMAIN m
    THEN [keys |-> m, data |-> Nil, err |-> ErrKeyExists]
    ELSE LET data == CurrentTimeKeyData(user, validDuration)
         IN  [keys |-> MapPut(m, key, data), data |-> <<data>>, err |-> NoErr]

RECURSIVE RangeDeleteUser(_, _, _, _)
RangeDeleteUser(m, todo, user, removed) ==
    IF todo = {} THEN [keys |-> m, removed |-> removed]
    ELSE LET key == CHOOSE k \in todo : TRUE
         IN  IF m[key].User = user
             THEN RangeDeleteUser(MapDelete(m, key), todo \ {key}, user, removed + 1)
             ELSE RangeDeleteUser(m, todo \ {key}, user, removed)

\* A revocation that drops every record, whoever its user is.
DeleteEntriesForUserResultAll(m, user) == [keys |-> <<>>, removed |-> Cardinality(DOMAIN m)]

DeleteEntriesForUserResult(m, user) == RangeDeleteUser(m, DOMAIN m, user, 0)

RECURSIVE RangeDeleteInvalid(_, _, _, _)
RangeDeleteInvalid(m, todo, now, removed) ==
    IF todo = {} THEN [keys |-> m, removed |-> removed]
    ELSE LET key == CHOOSE k \in todo : TRUE
         IN  IF KeyInvalid(now, m[key].ValidUntil)
             THEN RangeDeleteInvalid(MapDelete(m, key), todo \ {key}, now, removed + 1)
             ELSE RangeDeleteInvalid(m, todo \ {key}, now, removed)

\* A sweep that also removes the records expiring at this very instant.
DeleteInvalidKeysResultEager(m, now) == RangeDeleteInvalid(m, DOMAIN m, now + 1, 0)

DeleteInvalidKeysResult(m, now) == RangeDeleteInvalid(m, DOMAIN m, now, 0)

\* A delete that leaves the map as it is, and one that empties it.
DeleteKeyResultKeeps(m, key) == m
DeleteKeyResultClears(m, key) == <<>>

DeleteKeyResult(m, key) == MapDelete(m, key)

\* ------------------------------------------------------- SessionController
\* securecookie.GenerateRandomKey yields the bytes of a key, or nil.
NoBytes == "nil bytes"
RandomBytes == Tokens \cup {NoBytes}

\* A generator that falls back to a fixed key when the source gives no bytes.
GenRandomBase64Fallback(b) ==
    IF b = NoBytes THEN [key |-> "k1", err |-> NoErr] ELSE [key |-> b, err |-> NoErr]

\* base64.URLEncoding.EncodeToString is one-to-one; a key stands for its text.
GenRandomBase64(b) ==
    IF b = NoBytes THEN [key |-> NoKey, err |-> ErrRandom] ELSE [key |-> b, err |-> NoErr]

AddKeyResult(key, created) ==
    IF created.err # NoErr
    THEN [NoRet EXCEPT !.err = created.err]
    ELSE [NoRet EXCEPT !.data = created.data, !.key = key]

\* An expired key reported like a missing one.
ValidateSessionResultConflated(now, got) ==
    IF got.err # NoErr
    THEN [NoRet EXCEPT !.err = got.err]
    ELSE LET info == got.data[1]
         IN  IF KeyInvalid(now, info.ValidUntil)
             THEN [NoRet EXCEPT !.err = ErrKeyNotFound, !.maxAge = 0 - 1]
             ELSE [NoRet EXCEPT !.data = got.data, !.maxAge = info.ValidUntil - now]

ValidateSessionResult(now, got) ==
    IF got.err # NoErr
    THEN [NoRet EXCEPT !.err = got.err]
    ELSE LET info == got.data[1]
         IN  IF KeyInvalid(now, info.ValidUntil)
             THEN [NoRet EXCEPT !.err = ErrInvalidKey, !.maxAge = 0 - 1]
             ELSE [NoRet EXCEPT !.data = got.data, !.maxAge = info.ValidUntil - now]

\* ------------------------------------------------------------------ history
\* life[k] follows the calls, not the map: a successful CreateEntry records the
\* user it was called with and the data it returned, a delete call records
\* itself for the tokens it is about. pop: since the token's record was created,
\* a GetData cache miss has written it to memcached.
LifeCreate(l, key, user, created) ==
    IF created.err = NoErr
    THEN [l EXCEPT ![key] = [op |-> "CreateEntry", user |-> user, data |-> created.data, pop |-> FALSE]]
    ELSE l

LifeDeleteKey(l, key) ==
    [l EXCEPT ![key] = [NoLife EXCEPT !.op = "DeleteKey", !.pop = l[key].pop]]

LifeDeleteUser(l, user) ==
    [k \in Tokens |->
        IF l[k].op = "CreateEntry" /\ l[k].user = user
        THEN [NoLife EXCEPT !.op = "DeleteEntriesForUser", !.pop = l[k].pop] ELSE l[k]]

LifeDeleteInvalid(l, now) ==
    [k \in Tokens |->
        IF l[k].op = "CreateEntry" /\ now > l[k].data[1].ValidUntil
        THEN [NoLife EXCEPT !.op = "DeleteInvalidKeys", !.pop = l[k].pop] ELSE l[k]]

\* ---------------------------------------- one caller: each call is one step
\* The handler's lock makes each of its operations atomic; the calls of a
\* single caller run one after the other.
conc == <<mutex, pc, frame, result, mcIdent, cache, other>>

\* An AddKey that, when CreateEntry fails, tries once more with another key.
AddKeyRetrying(user, validDuration) ==
    /\ \E key \in Tokens, again \in Tokens :
            LET first == CreateEntryResult(keys, user, key, validDuration)
                second == CreateEntryResult(keys, user, again, validDuration)
            IN  IF first.err = NoErr
                THEN /\ keys' = first.keys
                     /\ life' = LifeCreate(life, key, user, first)
                     /\ call' = [NoCall EXCEPT !.op = "AddKey", !.key = key, !.user = user,
                                               !.dur = validDuration, !.creates = 1]
                     /\ ret' = AddKeyResult(key, first)
                ELSE /\ keys' = second.keys
                     /\ life' = LifeCreate(life, again, user, second)
                     /\ call' = [NoCall EXCEPT !.op = "AddKey", !.key = again, !.user = user,
                                               !.dur = validDuration, !.creates = 2]
                     /\ ret' = AddKeyResult(again, second)
    /\ UNCHANGED <<clock, conc>>

\* GenRandomBase64 encodes the bytes of the random source, or fails when the
\* source gave none; then CreateEntry is called once.
AddKey(user, validDuration) ==
    /\ \E b \in RandomBytes :
        LET gen == GenRandomBase64(b)
            rand == IF b = NoBytes THEN "failed" ELSE "ok"
        IN  IF gen.err # NoErr
            THEN /\ call' = [NoCall EXCEPT !.op = "AddKey", !.user = user,
                                           !.dur = validDuration, !.rand = rand]
                 /\ ret' = [NoRet EXCEPT !.err = gen.err]
                 /\ UNCHANGED <<keys, life>>
            ELSE LET created == CreateEntryResult(keys, user, gen.key, validDuration)
                 IN  /\ keys' = created.keys
                     /\ life' = LifeCreate(life, gen.key, user, created)
                     /\ call' = [NoCall EXCEPT !.op = "AddKey", !.key = gen.key, !.user = user,
                                               !.dur = validDuration, !.creates = 1,
                                               !.rand = rand]
                     /\ ret' = AddKeyResult(gen.key, created)
    /\ UNCHANGED <<clock, conc>>

CreateEntry(user, key, validDuration) ==
    /\ LET created == CreateEntryResult(keys, user, key, validDuration)
       IN  /\ keys' = created.keys
           /\ life' = LifeCreate(life, key, user, created)
           /\ ret' = [NoRet EXCEPT !.data = created.data, !.err = created.err]
    /\ call' = [NoCall EXCEPT !.op = "CreateEntry", !.key = key, !.user = user,
                              !.dur = validDuration, !.creates = 1]
    /\ UNCHANGED <<clock, conc>>

GetData(key) ==
    /\ LET got == GetDataResult(keys, key)
       IN  ret' = [NoRet EXCEPT !.data = got.data, !.err = got.err]
    /\ call' = [NoCall EXCEPT !.op = "GetData", !.key = key]
    /\ UNCHANGED <<keys, life, clock, conc>>

ValidateSession(session) ==
    /\ LET now == CurrentTime
       IN  /\ call' = [NoCall EXCEPT !.op = "ValidateSession", !.now = now,
                                     !.key = IF session \in Tokens THEN session ELSE NoKey]
           /\ ret' = CASE session = StoreFails -> [NoRet EXCEPT !.err = ErrStore]
                       [] session = NoAuthKey -> [NoRet EXCEPT !.err = ErrNotAuthSession]
                       [] session = NotAString -> [NoRet EXCEPT !.err = ErrLookup]
                       [] OTHER -> ValidateSessionResult(now, GetDataResult(keys, session))
    /\ UNCHANGED <<keys, life, clock, conc>>

DeleteKey(key) ==
    /\ keys' = DeleteKeyResult(keys, key)
    /\ life' = LifeDeleteKey(life, key)
    /\ call' = [NoCall EXCEPT !.op = "DeleteKey", !.key = key]
    /\ ret' = NoRet
    /\ UNCHANGED <<clock, conc>>

EndSession(session) ==
    /\ call' = [NoCall EXCEPT !.op = "EndSession",
                              !.key = IF session \in Tokens THEN session ELSE NoKey]
    /\ CASE session = StoreFails ->
                ret' = [NoRet EXCEPT !.err = ErrStore] /\ UNCHANGED <<keys, life>>
         [] session = NoAuthKey ->
                ret' = NoRet /\ UNCHANGED <<keys, life>>
         [] session = NotAString ->
                ret' = [NoRet EXCEPT !.err = ErrLookup] /\ UNCHANGED <<keys, life>>
         [] OTHER ->
                /\ keys' = DeleteKeyResult(keys, session)
                /\ life' = LifeDeleteKey(life, session)
                /\ ret' = [NoRet EXCEPT !.maxAge = 0 - 1]
    /\ UNCHANGED <<clock, conc>>

DeleteEntriesForUser(user) ==
    /\ LET res == DeleteEntriesForUserResult(keys, user)
       IN  /\ keys' = res.keys
           /\ ret' = [NoRet EXCEPT !.count = res.removed]
    /\ life' = LifeDeleteUser(life, user)
    /\ call' = [NoCall EXCEPT !.op = "DeleteEntriesForUser", !.user = user]
    /\ UNCHANGED <<clock, conc>>

DeleteInvalidKeys ==
    /\ LET now == CurrentTime
           res == DeleteInvalidKeysResult(keys, now)
       IN  /\ keys' = res.keys
           /\ ret' = [NoRet EXCEPT !.count = res.removed]
           /\ life' = LifeDeleteInvalid(life, now)
           /\ call' = [NoCall EXCEPT !.op = "DeleteInvalidKeys", !.now = now]
    /\ UNCHANGED <<clock, conc>>

\* A wall clock that is set to another time, also back.
TickAnywhere ==
    /\ clock' \in (0..MaxTime) \ {clock}
    /\ UNCHANGED <<keys, call, ret, life, conc>>

Tick ==
    /\ clock < MaxTime
    /\ clock' = clock + 1
    /\ UNCHANGED <<keys, call, ret, life, conc>>

Next ==
    \/ \E user \in Users, d \in Durations : AddKey(user, d)
    \/ \E user \in Users, key \in Tokens, d \in Durations : CreateEntry(user, key, d)
    \/ \E key \in Tokens : GetData(key)
    \/ \E session \in Sessions : ValidateSession(session)
    \/ \E session \in Sessions : EndSession(session)
    \/ \E key \in Tokens : DeleteKey(key)
    \/ \E user \in Users : DeleteEntriesForUser(user)
    \/ DeleteInvalidKeys
    \/ Tick

Spec == Init /\ [][Next]_vars

\* ------------------------------------- concurrent callers of the handler
\* Each caller runs one InMemoryHandler operation at a time, step by step:
\* the call, taking the lock, and the locked section(s) up to the unlock.
seq == <<call, ret, life, mcIdent, cache, other>>

\* History: a CreateEntry call is fresh while its token had no record when it
\* was called and no record of that token was removed since.
Disturb(f, gone) ==
    [p \in Procs |-> IF f[p].key \in gone THEN [f[p] EXCEPT !.fresh = FALSE] ELSE f[p]]

Jump(p, to, f, r) ==
    /\ pc' = [pc EXCEPT ![p] = to]
    /\ frame' = [frame EXCEPT ![p] = f]
    /\ result' = [result EXCEPT ![p] = r]

CallCreateEntry(p, user, key, validDuration) ==
    /\ pc[p] = "idle"
    /\ Jump(p, "Lock", [NoFrame EXCEPT !.op = "CreateEntry", !.key = key, !.user = user,
                        !.dur = validDuration, !.fresh = key \notin DOMAIN keys], NoRet)
    /\ UNCHANGED <<keys, mutex, clock, seq>>

CallGetData(p, key) ==
    /\ pc[p] = "idle"
    /\ Jump(p, "RLock", [NoFrame EXCEPT !.op = "GetData", !.key = key], NoRet)
    /\ UNCHANGED <<keys, mutex, clock, seq>>

CallDeleteEntriesForUser(p, user) ==
    /\ pc[p] = "idle"
    /\ Jump(p, "Lock", [NoFrame EXCEPT !.op = "DeleteEntriesForUser", !.user = user], NoRet)
    /\ UNCHANGED <<keys, mutex, clock, seq>>

\* DeleteInvalidKeys reads the clock before it takes the lock.
CallDeleteInvalidKeys(p) ==
    /\ pc[p] = "idle"
    /\ Jump(p, "Lock", [NoFrame EXCEPT !.op = "DeleteInvalidKeys", !.now = CurrentTime], NoRet)
    /\ UNCHANGED <<keys, mutex, clock, seq>>

CallDeleteKey(p, key) ==
    /\ pc[p] = "idle"
    /\ Jump(p, "Lock", [NoFrame EXCEPT !.op = "DeleteKey", !.key = key], NoRet)
    /\ UNCHANGED <<keys, mutex, clock, seq>>

\* -------------------------------------------- InMemoryHandler, fair scheduling
\* A CreateEntry that returns the "Key already exists" error with the lock held.
CreateEntryCheckKeepsLock(p) ==
    /\ pc[p] = "locked"
    /\ frame[p].op = "CreateEntry"
    /\ IF frame[p].key \in DOMAIN keys
       THEN /\ Jump(p, "done", frame[p], [NoRet EXCEPT !.err = ErrKeyExists])
            /\ UNCHANGED mutex
       ELSE /\ pc' = [pc EXCEPT ![p] = "insert"]
            /\ UNCHANGED <<mutex, frame, result>>
    /\ UNCHANGED <<keys, clock, seq>>

\* h.mutex.Lock()
Lock(p) ==
    /\ pc[p] = "Lock"
    /\ CanLock(mutex)
    /\ mutex' = LockBy(mutex, p)
    /\ pc' = [pc EXCEPT ![p] = "locked"]
    /\ UNCHANGED <<keys, clock, frame, result, seq>>

\* h.mutex.RLock()
RLock(p) ==
    /\ pc[p] = "RLock"
    /\ CanRLock(mutex)
    /\ mutex' = RLockBy(mutex, p)
    /\ pc' = [pc EXCEPT ![p] = "rlocked"]
    /\ UNCHANGED <<keys, clock, frame, result, seq>>

\* GetData: the map read, RUnlock, and the return.
GetDataLocked(p) ==
    /\ pc[p] = "rlocked"
    /\ LET got == GetDataResult(keys, frame[p].key)
       IN  Jump(p, "done", frame[p], [NoRet EXCEPT !.data = got.data, !.err = got.err])
    /\ mutex' = RUnlockBy(mutex, p)
    /\ UNCHANGED <<keys, clock, seq>>

\* CreateEntry: the hasEntry test; on an existing key, Unlock and the error.
CreateEntryCheck(p) ==
    /\ pc[p] = "locked"
    /\ frame[p].op = "CreateEntry"
    /\ IF frame[p].key \in DOMAIN keys
       THEN /\ mutex' = Unlock(mutex)
            /\ Jump(p, "done", frame[p], [NoRet EXCEPT !.err = ErrKeyExists])
       ELSE /\ pc' = [pc EXCEPT ![p] = "insert"]
            /\ UNCHANGED <<mutex, frame, result>>
    /\ UNCHANGED <<keys, clock, seq>>

\* CreateEntry: CurrentTimeKeyData, the map write, Unlock, and the return.
CreateEntryInsert(p) ==
    /\ pc[p] = "insert"
    /\ LET data == CurrentTimeKeyData(frame[p].user, frame[p].dur)
       IN  /\ keys' = MapPut(keys, frame[p].key, data)
           /\ Jump(p, "done", frame[p], [NoRet EXCEPT !.data = <<data>>])
    /\ mutex' = Unlock(mutex)
    /\ UNCHANGED <<clock, seq>>

DeleteEntriesForUserLocked(p) ==
    /\ pc[p] = "locked"
    /\ frame[p].op = "DeleteEntriesForUser"
    /\ LET res == DeleteEntriesForUserResult(keys, frame[p].user)
       IN  /\ keys' = res.keys
           /\ frame' = Disturb(frame, (DOMAIN keys) \ DOMAIN res.keys)
           /\ result' = [result EXCEPT ![p] = [NoRet EXCEPT !.count = res.removed]]
    /\ mutex' = Unlock(mutex)
    /\ pc' = [pc EXCEPT ![p] = "done"]
    /\ UNCHANGED <<clock, seq>>

DeleteInvalidKeysLocked(p) ==
    /\ pc[p] = "locked"
    /\ frame[p].op = "DeleteInvalidKeys"
    /\ LET res == DeleteInvalidKeysResult(keys, frame[p].now)
       IN  /\ keys' = res.keys
           /\ frame' = Disturb(frame, (DOMAIN keys) \ DOMAIN res.keys)
           /\ result' = [result EXCEPT ![p] = [NoRet EXCEPT !.count = res.removed]]
    /\ mutex' = Unlock(mutex)
    /\ pc' = [pc EXCEPT ![p] = "done"]
    /\ UNCHANGED <<clock, seq>>

DeleteKeyLocked(p) ==
    /\ pc[p] = "locked"
    /\ frame[p].op = "DeleteKey"
    /\ keys' = DeleteKeyResult(keys, frame[p].key)
    /\ frame' = Disturb(frame, (DOMAIN keys) \ DOMAIN keys')
    /\ mutex' = Unlock(mutex)
    /\ pc' = [pc EXCEPT ![p] = "done"]
    /\ UNCHANGED <<clock, result, seq>>

\* The caller takes the result and is free for its next call.
Return(p) ==
    /\ pc[p] = "done"
    /\ Jump(p, "idle", NoFrame, NoRet)
    /\ UNCHANGED <<keys, mutex, clock, seq>>

NextConc ==
    \/ \E p \in Procs, user \in Users, key \in Tokens, d \in ConcDurations :
            CallCreateEntry(p, user, key, d)
    \/ \E p \in Procs, key \in Tokens : CallGetData(p, key)
    \/ \E p \in Procs, user \in Users : CallDeleteEntriesForUser(p, user)
    \/ \E p \in Procs : CallDeleteInvalidKeys(p)
    \/ \E p \in Procs, key \in Tokens : CallDeleteKey(p, key)
    \/ \E p \in Procs : Lock(p)
    \/ \E p \in Procs : RLock(p)
    \/ \E p \in Procs : GetDataLocked(p)
    \/ \E p \in Procs : CreateEntryCheck(p)
    \/ \E p \in Procs : CreateEntryInsert(p)
    \/ \E p \in Procs : DeleteEntriesForUserLocked(p)
    \/ \E p \in Procs : DeleteInvalidKeysLocked(p)
    \/ \E p \in Procs : DeleteKeyLocked(p)
    \/ \E p \in Procs : Return(p)
    \/ Tick

SpecConc == Init /\ [][NextConc]_vars

\* The statements a goroutine runs while it holds the lock.
Locked(p) ==
    \/ GetDataLocked(p)
    \/ CreateEntryCheck(p)
    \/ CreateEntryInsert(p)
    \/ DeleteEntriesForUserLocked(p)
    \/ DeleteInvalidKeysLocked(p)
    \/ DeleteKeyLocked(p)

\* The callers of one user.
NextConcFair ==
    \/ \E p \in Procs, key \in Tokens, d \in ConcDurations :
            CallCreateEntry(p, "u1", key, d)
    \/ \E p \in Procs, key \in Tokens : CallGetData(p, key)
    \/ \E p \in Procs : CallDeleteEntriesForUser(p, "u1")
    \/ \E p \in Procs : CallDeleteInvalidKeys(p)
    \/ \E p \in Procs, key \in Tokens : CallDeleteKey(p, key)
    \/ \E p \in Procs : Lock(p)
    \/ \E p \in Procs : RLock(p)
    \/ \E p \in Procs : GetDataLocked(p)
    \/ \E p \in Procs : CreateEntryCheck(p)
    \/ \E p \in Procs : CreateEntryInsert(p)
    \/ \E p \in Procs : DeleteEntriesForUserLocked(p)
    \/ \E p \in Procs : DeleteInvalidKeysLocked(p)
    \/ \E p \in Procs : DeleteKeyLocked(p)
    \/ \E p \in Procs : Return(p)
    \/ Tick

\* The Go scheduler runs every runnable goroutine, and sync.RWMutex hands the
\* lock to a goroutine that waits for it: a waiting writer is not overtaken
\* for ever, and an Unlock releases the readers that wait.
SpecConcFair ==
    /\ Init /\ [][NextConcFair]_vars
    /\ \A p \in Procs : WF_vars(Locked(p)) /\ SF_vars(Lock(p)) /\ SF_vars(RLock(p))

\* ------------------------------------------- MemcachedSessionHandler
\* The handler wraps a parent SessionHandler, here the InMemoryHandler, and a
\* memcached client. One caller; each call is one step. A call of the client
\* can fail, and memcached drops an entry once its expiration has passed.
SessionPrefix == "skey:"

\* The field Expiration, in seconds; the handler passes it with every Set.
Expiration == 1

\* formatKeyEntry: "<prefix><identifier>:<key>"
formatKeyEntry(key) == <<SessionPrefix, mcIdent, key>>

\* Time.Format("2006-01-02 15:04:05") drops the fraction of the second;
\* time.Parse reads the second back.
FormatTime(t) == t - (t % TicksPerSecond)
ParseTime(text) == text

\* fmt.Sprintf("%v", user) of an id, and ConvertUser reading the id back.
FormatUser(user) == <<"%v", user>>
ConvertUser(text) == text[2]

formatJSONData(data) ==
    [u |-> FormatUser(data.User), c |-> FormatTime(data.CreationTime),
     v |-> FormatTime(data.ValidUntil)]

parseJSONData(b) ==
    NewSessionKeyData(ConvertUser(b.u), ParseTime(b.c), ParseTime(b.v))

\* Client.Get: the item, or ErrCacheMiss for a key that is absent or expired.
ErrCacheMiss == "memcache: cache miss"
ErrMemcached == "memcache: server error"

ClientGet(c, memcachedKey, failed) ==
    IF failed THEN [item |-> Nil, err |-> ErrMemcached]
    ELSE IF memcachedKey \in DOMAIN c /\ clock < c[memcachedKey].exp
         THEN [item |-> <<c[memcachedKey]>>, err |-> NoErr]
         ELSE [item |-> Nil, err |-> ErrCacheMiss]

\* The memcached server counts whole seconds.
ServerTime(t) == t - (t % TicksPerSecond)

\* setMemcached: Client.Set of the formatted data under the formatted key; an
\* error is logged only.
setMemcached(c, key, value, failed) ==
    IF failed THEN c
    ELSE MapPut(c, formatKeyEntry(key),
                [value |-> formatJSONData(value),
                 exp |-> ServerTime(clock) + Expiration * TicksPerSecond])

\* Client.Delete; an error is logged only.
ClientDelete(c, memcachedKey, failed) ==
    IF failed THEN c ELSE MapDelete(c, memcachedKey)

LifePopulated(l, key) ==
    IF l[key].op = "CreateEntry" THEN [l EXCEPT ![key].pop = TRUE] ELSE l

rest == <<mutex, pc, frame, result, other>>

MCGetData(key) ==
    /\ \E getFailed \in BOOLEAN, setFailed \in BOOLEAN :
        LET memcachedKey == formatKeyEntry(key)
            got == ClientGet(cache, memcachedKey, getFailed)
            parent == GetDataResult(keys, key)
            asked == [NoCall EXCEPT !.op = "Memcached.GetData", !.key = key, !.parent = 1,
                        !.cacheGet = IF got.err = ErrCacheMiss THEN "miss" ELSE "error"]
        IN  IF got.err # NoErr
            THEN IF parent.err # NoErr
                 THEN /\ ret' = [NoRet EXCEPT !.data = parent.data, !.err = parent.err]
                      /\ call' = asked
                      /\ UNCHANGED <<cache, life>>
                 ELSE IF got.err # ErrCacheMiss
                 THEN /\ ret' = [NoRet EXCEPT !.data = parent.data, !.err = parent.err]
                      /\ call' = asked
                      /\ UNCHANGED <<cache, life>>
                 ELSE /\ cache' = setMemcached(cache, key, parent.data[1], setFailed)
                      /\ life' = IF setFailed THEN life ELSE LifePopulated(life, key)
                      /\ call' = [asked EXCEPT !.set = IF setFailed THEN "failed" ELSE "ok"]
                      /\ ret' = [NoRet EXCEPT !.data = parent.data, !.err = parent.err]
            ELSE /\ ret' = [NoRet EXCEPT !.data = <<parseJSONData(got.item[1].value)>>]
                 /\ call' = [NoCall EXCEPT !.op = "Memcached.GetData", !.key = key,
                                           !.cacheGet = "hit"]
                 /\ UNCHANGED <<cache, life>>
    /\ UNCHANGED <<keys, clock, mcIdent, rest>>

MCCreateEntry(user, key, validDuration) ==
    /\ \E setFailed \in BOOLEAN :
        LET created == CreateEntryResult(keys, user, key, validDuration)
        IN  /\ keys' = created.keys
            /\ life' = LifeCreate(life, key, user, created)
            /\ ret' = [NoRet EXCEPT !.data = created.data, !.err = created.err]
            /\ cache' = IF created.err # NoErr THEN cache
                        ELSE setMemcached(cache, key, created.data[1], setFailed)
            /\ call' = [NoCall EXCEPT !.op = "Memcached.CreateEntry", !.key = key,
                          !.user = user, !.dur = validDuration, !.creates = 1,
                          !.parent = 1,
                          !.set = IF created.err # NoErr THEN ""
                                  ELSE IF setFailed THEN "failed" ELSE "ok"]
    /\ UNCHANGED <<clock, mcIdent, rest>>

\* updateCurrentSessionKeyIdentifier draws a new random int, then the parent
\* deletes the user's entries.
MCDeleteEntriesForUser(user) ==
    /\ \E drawn \in Idents : mcIdent' = drawn
    /\ LET res == DeleteEntriesForUserResult(keys, user)
       IN  /\ keys' = res.keys
           /\ ret' = [NoRet EXCEPT !.count = res.removed]
    /\ life' = LifeDeleteUser(life, user)
    /\ call' = [NoCall EXCEPT !.op = "Memcached.DeleteEntriesForUser", !.user = user]
    /\ UNCHANGED <<clock, cache, rest>>

MCDeleteInvalidKeys ==
    /\ LET now == CurrentTime
           res == DeleteInvalidKeysResult(keys, now)
       IN  /\ keys' = res.keys
           /\ ret' = [NoRet EXCEPT !.count = res.removed]
           /\ life' = LifeDeleteInvalid(life, now)
           /\ call' = [NoCall EXCEPT !.op = "Memcached.DeleteInvalidKeys", !.now = now]
    /\ UNCHANGED <<clock, mcIdent, cache, rest>>

\* A DeleteKey that gives up with the client's error when Client.Delete fails.
MCDeleteKeyGivingUp(key) ==
    /\ \E deleteFailed \in BOOLEAN :
        /\ cache' = ClientDelete(cache, formatKeyEntry(key), deleteFailed)
        /\ call' = [NoCall EXCEPT !.op = "Memcached.DeleteKey", !.key = key,
                                  !.parent = IF deleteFailed THEN 0 ELSE 1,
                                  !.del = IF deleteFailed THEN "failed" ELSE "ok"]
        /\ keys' = IF deleteFailed THEN keys ELSE DeleteKeyResult(keys, key)
        /\ life' = IF deleteFailed THEN life ELSE LifeDeleteKey(life, key)
        /\ ret' = IF deleteFailed THEN [NoRet EXCEPT !.err = ErrMemcached] ELSE NoRet
    /\ UNCHANGED <<clock, mcIdent, rest>>

MCDeleteKey(key) ==
    /\ \E deleteFailed \in BOOLEAN :
        /\ cache' = ClientDelete(cache, formatKeyEntry(key), deleteFailed)
        /\ call' = [NoCall EXCEPT !.op = "Memcached.DeleteKey", !.key = key, !.parent = 1,
                                  !.del = IF deleteFailed THEN "failed" ELSE "ok"]
    /\ keys' = DeleteKeyResult(keys, key)
    /\ life' = LifeDeleteKey(life, key)
    /\ ret' = NoRet
    /\ UNCHANGED <<clock, mcIdent, rest>>

\* Time passes; the server forgets the entries whose expiration has come.
MCTick ==
    /\ clock < MaxTime
    /\ clock' = clock + 1
    /\ cache' = [mk \in {e \in DOMAIN cache : clock' < cache[e].exp} |-> cache[mk]]
    /\ UNCHANGED <<keys, call, ret, life, mcIdent, rest>>

\* NewMemcachedSessionHandler draws the first identifier.
InitMC ==
    /\ keys = <<>>
    /\ mutex = MutexFree
    /\ clock = 0
    /\ call = NoCall
    /\ ret = NoRet
    /\ life = [k \in Tokens |-> NoLife]
    /\ pc = [p \in Procs |-> "idle"]
    /\ frame = [p \in Procs |-> NoFrame]
    /\ result = [p \in Procs |-> NoRet]
    /\ mcIdent \in Idents
    /\ cache = <<>>
    /\ sessions = <<>>
    /\ userHandler = ""
    /\ users = <<>>
    /\ nextID = 0
    /\ known = [n \in Names |-> Nil]
    /\ InitExtra

NextMC ==
    \/ \E key \in Tokens : MCGetData(key)
    \/ \E o \in OwnedTokens, d \in ConcDurations : MCCreateEntry(o[1], o[2], d)
    \/ \E user \in Users : MCDeleteEntriesForUser(user)
    \/ MCDeleteInvalidKeys
    \/ \E key \in Tokens : MCDeleteKey(key)
    \/ MCTick

SpecMC == InitMC /\ [][NextMC]_vars

\* The same handler with sessions that end at once, while memcached keeps an
\* entry for Expiration seconds.
ShortDurations == {0}

NextMCShort ==
    \/ \E key \in Tokens : MCGetData(key)
    \/ \E o \in OwnedTokens, d \in ShortDurations : MCCreateEntry(o[1], o[2], d)
    \/ \E user \in Users : MCDeleteEntriesForUser(user)
    \/ MCDeleteInvalidKeys
    \/ \E key \in Tokens : MCDeleteKey(key)
    \/ MCTick

SpecMCShort == InitMC /\ [][NextMCShort]_vars

\* The same handler with one token that either user can get.
NextMCReuse ==
    \/ \E key \in ReusedTokens : MCGetData(key)
    \/ \E user \in Users, key \in ReusedTokens, d \in ConcDurations :
            MCCreateEntry(user, key, d)
    \/ \E user \in Users : MCDeleteEntriesForUser(user)
    \/ MCDeleteInvalidKeys
    \/ \E key \in ReusedTokens : MCDeleteKey(key)
    \/ MCTick

SpecMCReuse == InitMC /\ [][NextMCReuse]_vars

\* ------------------------------------------------------- SQLConnector
\* The table user_sessions(user_id, session_key UNIQUE, login_time, last_seen)
\* behind a SQLConnector with the MySQL queries. One caller; each call is one
\* step. A statement can fail in the database.
ErrSQL == "sql: statement failed"
ErrOldKeyNotFound == "Unable to update session key: old key was not found"

\* The durations a caller asks for.
SQLDurations == 1..MaxTime

\* What can go wrong inside a call: nothing, the first statement, the reading
\* of the time column, the statement that follows the first.
DBFailures == {"none", "exec", "time", "update"}

\* RandomBase64: the encoded bytes, or the error of the random source.
RandomBase64(b) ==
    IF b = NoBytes THEN [key |-> NoKey, err |-> ErrRandom] ELSE [key |-> b, err |-> NoErr]

\* A check that still accepts at referenceTime + validDuration.
CheckSessionFromTimeInclusive(now, validDuration, referenceTime) ==
    now <= referenceTime + validDuration

\* CheckSessionFromTime: now.Before(referenceTime.Add(validDuration))
CheckSessionFromTime(now, validDuration, referenceTime) ==
    now < referenceTime + validDuration

\* INSERT INTO user_sessions ... VALUES(userID, key, now, now)
GenSessionResult(t, now, gen, userID, failed) ==
    IF gen.err # NoErr THEN [sessions |-> t, key |-> NoKey, err |-> gen.err]
    ELSE IF failed = "exec" \/ gen.key \in DOMAIN t
    THEN [sessions |-> t, key |-> NoKey, err |-> ErrSQL]
    ELSE [sessions |-> MapPut(t, gen.key,
                              [user_id |-> userID, login_time |-> now, last_seen |-> now]),
          key |-> gen.key, err |-> NoErr]

\* An update that also sets last_seen.
UpdateSessionKeyResultSeen(t, now, gen, sessionKey, failed) ==
    IF gen.err = NoErr /\ failed # "exec" /\ sessionKey \in DOMAIN t
       /\ gen.key \notin DOMAIN t
    THEN [sessions |-> MapPut(MapDelete(t, sessionKey), gen.key,
                              [t[sessionKey] EXCEPT !.login_time = now, !.last_seen = now]),
          key |-> gen.key, err |-> NoErr]
    ELSE [sessions |-> t, key |-> NoKey, err |-> ErrSQL]

\* UPDATE user_sessions SET session_key = newKey, login_time = now
\* WHERE session_key = sessionKey; MySQL counts the rows it changed.
UpdateSessionKeyResult(t, now, gen, sessionKey, failed) ==
    IF gen.err # NoErr THEN [sessions |-> t, key |-> NoKey, err |-> gen.err]
    ELSE IF failed = "exec" THEN [sessions |-> t, key |-> NoKey, err |-> ErrSQL]
    ELSE IF sessionKey \notin DOMAIN t
    THEN [sessions |-> t, key |-> NoKey, err |-> ErrOldKeyNotFound]
    ELSE IF gen.key \in DOMAIN t \ {sessionKey}
    THEN [sessions |-> t, key |-> NoKey, err |-> ErrSQL]
    ELSE LET row == [t[sessionKey] EXCEPT !.login_time = now]
             after == MapPut(MapDelete(t, sessionKey), gen.key, row)
             rowsAffected == IF after = t THEN 0 ELSE 1
         IN  IF rowsAffected = 0
             THEN [sessions |-> after, key |-> NoKey, err |-> ErrOldKeyNotFound]
             ELSE [sessions |-> after, key |-> gen.key, err |-> NoErr]

\* A check that returns no user when the update of last_seen fails.
isValidSessionFromColumnAllOrNothing(t, now, validDuration, checkKey, columnName, failed) ==
    IF failed = "none" /\ checkKey \in DOMAIN t
       /\ CheckSessionFromTime(now, validDuration, t[checkKey][columnName])
    THEN [sessions |-> [t EXCEPT ![checkKey].last_seen = now],
          id |-> <<t[checkKey].user_id>>, err |-> NoErr]
    ELSE [sessions |-> t, id |-> Nil,
          err |-> IF failed = "none" \/ checkKey \notin DOMAIN t THEN NoErr ELSE ErrSQL]

\* isValidSessionFromColumn: SELECT user_id, <column> ... WHERE session_key =
\* checkKey; when the key is still valid, UPDATE ... SET last_seen = now.
isValidSessionFromColumn(t, now, validDuration, checkKey, columnName, failed) ==
    IF failed = "exec" THEN [sessions |-> t, id |-> Nil, err |-> ErrSQL]
    ELSE IF checkKey \notin DOMAIN t THEN [sessions |-> t, id |-> Nil, err |-> NoErr]
    ELSE IF failed = "time" THEN [sessions |-> t, id |-> Nil, err |-> ErrSQL]
    ELSE IF CheckSessionFromTime(now, validDuration, t[checkKey][columnName])
    THEN IF failed = "update"
         THEN [sessions |-> t, id |-> <<t[checkKey].user_id>>, err |-> ErrSQL]
         ELSE [sessions |-> [t EXCEPT ![checkKey].last_seen = now],
               id |-> <<t[checkKey].user_id>>, err |-> NoErr]
    ELSE [sessions |-> t, id |-> Nil, err |-> NoErr]

\* A cleaning that goes by last_seen.
CleanSessionsResultLastSeen(t, now, validDuration, failed) ==
    LET lastValidLogin == now - validDuration
        gone == {k \in DOMAIN t : t[k].last_seen <= lastValidLogin}
    IN  IF failed = "exec" THEN [sessions |-> t, count |-> 0 - 1, err |-> ErrSQL]
        ELSE [sessions |-> [k \in DOMAIN t \ gone |-> t[k]],
              count |-> IF failed = "rows" THEN 0 - 1 ELSE Cardinality(gone),
              err |-> NoErr]

\* CleanSessions: DELETE FROM user_sessions WHERE login_time <= now - validDuration;
\* then RowsAffected, whose error is not returned.
CleanSessionsResult(t, now, validDuration, failed) ==
    LET lastValidLogin == now - validDuration
        gone == {k \in DOMAIN t : t[k].login_time <= lastValidLogin}
    IN  IF failed = "exec" THEN [sessions |-> t, count |-> 0 - 1, err |-> ErrSQL]
        ELSE [sessions |-> [k \in DOMAIN t \ gone |-> t[k]],
              count |-> IF failed = "rows" THEN 0 - 1 ELSE Cardinality(gone),
              err |-> NoErr]

notSQL == <<keys, life, clock, mutex, pc, frame, result, mcIdent, cache, accounts, extra>>

GenSession(userID) ==
    /\ \E b \in RandomBytes, failed \in {"none", "exec"} :
        LET now == CurrentTime
            res == GenSessionResult(sessions, now, RandomBase64(b), userID, failed)
        IN  /\ sessions' = res.sessions
            /\ ret' = [NoRet EXCEPT !.key = res.key, !.err = res.err]
            /\ call' = [NoCall EXCEPT !.op = "GenSession", !.user = userID, !.now = now,
                          !.key = RandomBase64(b).key, !.db = failed,
                          !.rand = IF b = NoBytes THEN "failed" ELSE "ok"]
    /\ UNCHANGED notSQL

UpdateSessionKey(sessionKey) ==
    /\ \E b \in RandomBytes, failed \in {"none", "exec"} :
        LET now == CurrentTime
            res == UpdateSessionKeyResult(sessions, now, RandomBase64(b), sessionKey, failed)
        IN  /\ sessions' = res.sessions
            /\ ret' = [NoRet EXCEPT !.key = res.key, !.err = res.err]
            /\ call' = [NoCall EXCEPT !.op = "UpdateSessionKey", !.key = sessionKey,
                          !.now = now, !.db = failed, !.newKey = RandomBase64(b).key,
                          !.rand = IF b = NoBytes THEN "failed" ELSE "ok"]
    /\ UNCHANGED notSQL

IsValidSession(validDuration, checkKey) ==
    /\ \E failed \in DBFailures :
        LET now == CurrentTime
            res == isValidSessionFromColumn(sessions, now, validDuration, checkKey,
                                            "login_time", failed)
        IN  /\ sessions' = res.sessions
            /\ ret' = [NoRet EXCEPT !.id = res.id, !.err = res.err]
            /\ call' = [NoCall EXCEPT !.op = "IsValidSession", !.key = checkKey,
                          !.dur = validDuration, !.now = now, !.column = "login_time",
                          !.db = failed]
    /\ UNCHANGED notSQL

IsValidSessionLastSeen(validDuration, checkKey) ==
    /\ \E failed \in DBFailures :
        LET now == CurrentTime
            res == isValidSessionFromColumn(sessions, now, validDuration, checkKey,
                                            "last_seen", failed)
        IN  /\ sessions' = res.sessions
            /\ ret' = [NoRet EXCEPT !.id = res.id, !.err = res.err]
            /\ call' = [NoCall EXCEPT !.op = "IsValidSessionLastSeen", !.key = checkKey,
                          !.dur = validDuration, !.now = now, !.column = "last_seen",
                          !.db = failed]
    /\ UNCHANGED notSQL

CleanSessions(validDuration) ==
    /\ \E failed \in {"none", "exec", "rows"} :
        LET now == CurrentTime
            res == CleanSessionsResult(sessions, now, validDuration, failed)
        IN  /\ sessions' = res.sessions
            /\ ret' = [NoRet EXCEPT !.count = res.count, !.err = res.err]
            /\ call' = [NoCall EXCEPT !.op = "CleanSessions", !.dur = validDuration,
                          !.now = now, !.db = failed,
                          !.removed = [k \in DOMAIN sessions \ DOMAIN res.sessions
                                         |-> sessions[k]]]
    /\ UNCHANGED notSQL

\* DELETE FROM user_sessions WHERE user_id = userID
RemoveSessionForUser(userID) ==
    /\ \E failed \in {"none", "exec"} :
        /\ sessions' = IF failed = "exec" THEN sessions
                       ELSE [k \in {e \in DOMAIN sessions : sessions[e].user_id # userID}
                               |-> sessions[k]]
        /\ ret' = [NoRet EXCEPT !.err = IF failed = "exec" THEN ErrSQL ELSE NoErr]
        /\ call' = [NoCall EXCEPT !.op = "RemoveSessionForUser", !.user = userID,
                                  !.db = failed]
    /\ UNCHANGED notSQL

NextSQL ==
    \/ \E userID \in Users : GenSession(userID)
    \/ \E sessionKey \in Tokens : UpdateSessionKey(sessionKey)
    \/ \E d \in SQLDurations, checkKey \in Tokens : IsValidSession(d, checkKey)
    \/ \E d \in SQLDurations, checkKey \in Tokens : IsValidSessionLastSeen(d, checkKey)
    \/ \E d \in SQLDurations : CleanSessions(d)
    \/ \E userID \in Users : RemoveSessionForUser(userID)
    \/ Tick

SpecSQL == Init /\ [][NextSQL]_vars

\* ------------------------------------------------------- UserHandler
\* SQLUserHandler over the table users(id SERIAL, username UNIQUE, password,
\* is_active, last_login, ...) and RedisUserHandler over the hashes "user:<username>" and the counter
\* NextIDKey. Of an account only the id and the password are read back.
\* math.MaxUint64, above every id the store gives out.
NoUserID == 2^30 + (2^30 - 1)
ErrUserNotFound == "User not found."
ErrUserExists == "Username already in use"
ErrHash == "password handler failed"
ErrRedis == "redis: command failed"

\* PasswordHandler.GenerateHash and CheckPassword: the digest is not the
\* password, and the comparison accepts the password it was made from.
GenerateHash(password) == <<"digest", password>>

\* A comparison that accepts every password.
CheckPasswordAny(hashedPW, password) == TRUE

CheckPassword(hashedPW, password) == hashedPW[2] = password

\* redis keeps the id as its decimal text; Validate parses it.
IDText(id) == <<"text", id>>
ParseUint(text) == text[2]

\* fmt.Sprintf("%s%v", handler.UserPrefix, userName)
userkey(userName) == <<"user:", userName>>

\* SQLUserHandler.Insert: the INSERT fails on a taken username; an id that
\* cannot be read back is answered with NoUserID and a nil error.
SQLUserInsertResult(t, last, now, userName, plainPW, failed) ==
    IF failed = "hash" THEN [users |-> t, nextID |-> last, uid |-> NoUserID, err |-> ErrHash]
    ELSE IF failed = "exec" \/ userName \in DOMAIN t
    THEN [users |-> t, nextID |-> last, uid |-> NoUserID, err |-> ErrSQL]
    ELSE LET insertInt == last + 1
             after == MapPut(t, userName,
                             [id |-> insertInt, password |-> GenerateHash(plainPW),
                              is_active |-> TRUE, last_login |-> now])
         IN  IF failed = "lastid"
             THEN [users |-> after, nextID |-> insertInt, uid |-> NoUserID, err |-> NoErr]
             ELSE [users |-> after, nextID |-> insertInt, uid |-> insertInt, err |-> NoErr]

\* SQLUserHandler.Validate
SQLUserValidateResult(t, userName, cleartextPwCheck, failed) ==
    IF failed = "exec" THEN [uid |-> NoUserID, err |-> ErrSQL]
    ELSE IF userName \notin DOMAIN t THEN [uid |-> NoUserID, err |-> ErrUserNotFound]
    ELSE IF failed = "check" THEN [uid |-> NoUserID, err |-> ErrHash]
    ELSE IF CheckPassword(t[userName].password, cleartextPwCheck)
    THEN [uid |-> t[userName].id, err |-> NoErr]
    ELSE [uid |-> NoUserID, err |-> NoErr]

\* RedisUserHandler.Insert: GenerateHash, EXISTS, INCR, HMSET, one after the
\* other.
RedisUserInsertResult(t, last, userName, plainPW, failed) ==
    IF failed = "hash" THEN [users |-> t, nextID |-> last, uid |-> NoUserID, err |-> ErrHash]
    ELSE IF failed = "exists"
    THEN [users |-> t, nextID |-> last, uid |-> NoUserID, err |-> ErrRedis]
    ELSE IF userkey(userName) \in DOMAIN t
    THEN [users |-> t, nextID |-> last, uid |-> NoUserID, err |-> ErrUserExists]
    ELSE IF failed = "incr"
    THEN [users |-> t, nextID |-> last, uid |-> NoUserID, err |-> ErrRedis]
    ELSE LET id == last + 1
         IN  IF failed = "hmset"
             THEN [users |-> t, nextID |-> id, uid |-> NoUserID, err |-> ErrRedis]
             ELSE [users |-> MapPut(t, userkey(userName),
                                    [id |-> IDText(id),
                                     password |-> GenerateHash(plainPW)]),
                   nextID |-> id, uid |-> id, err |-> NoErr]

\* RedisUserHandler.Validate: HMGET userkey id password
RedisUserValidateResult(t, userName, cleartextPwCheck, failed) ==
    IF failed = "exec" THEN [uid |-> NoUserID, err |-> ErrRedis]
    ELSE IF userkey(userName) \notin DOMAIN t
    THEN [uid |-> NoUserID, err |-> ErrUserNotFound]
    ELSE IF failed = "check" THEN [uid |-> NoUserID, err |-> ErrHash]
    ELSE IF CheckPassword(t[userkey(userName)].password, cleartextPwCheck)
    THEN [uid |-> ParseUint(t[userkey(userName)].id), err |-> NoErr]
    ELSE [uid |-> NoUserID, err |-> NoErr]

\* RedisUserHandler.UpdatePassword: GenerateHash, EXISTS, HMSET password
RedisUserUpdatePasswordResult(t, userName, plainPW, failed) ==
    IF failed = "hash" THEN [users |-> t, err |-> ErrHash]
    ELSE IF failed = "exists" THEN [users |-> t, err |-> ErrRedis]
    ELSE IF userkey(userName) \notin DOMAIN t THEN [users |-> t, err |-> ErrUserNotFound]
    ELSE IF failed = "hmset" THEN [users |-> t, err |-> ErrRedis]
    ELSE [users |-> [t EXCEPT ![userkey(userName)].password = GenerateHash(plainPW)],
          err |-> NoErr]

\* What a caller knows of a username after its calls returned.
KnownInsert(kn, userName, plainPW, res) ==
    IF res.err = NoErr
    THEN [kn EXCEPT ![userName] = <<[id |-> res.uid, pw |-> plainPW]>>]
    ELSE kn

KnownUpdate(kn, userName, plainPW, res) ==
    IF res.err = NoErr /\ kn[userName] # Nil
    THEN [kn EXCEPT ![userName] = <<[kn[userName][1] EXCEPT !.pw = plainPW]>>]
    ELSE kn

notUsers == <<keys, life, clock, mutex, pc, frame, result, mcIdent, cache, sessions,
              extra>>

SQLUserInsert(userName, plainPW) ==
    /\ userHandler = "sql"
    /\ nextID < MaxID
    /\ \E failed \in {"none", "hash", "exec", "lastid"} :
        LET res == SQLUserInsertResult(users, nextID, clock, userName, plainPW, failed)
        IN  /\ users' = res.users
            /\ nextID' = res.nextID
            /\ known' = KnownInsert(known, userName, plainPW, res)
            /\ ret' = [NoRet EXCEPT !.uid = res.uid, !.err = res.err]
            /\ call' = [NoCall EXCEPT !.op = "Insert", !.name = userName, !.pw = plainPW,
                                      !.db = failed]
    /\ UNCHANGED <<userHandler, notUsers>>

SQLUserValidate(userName, cleartextPwCheck) ==
    /\ userHandler = "sql"
    /\ \E failed \in {"none", "exec", "check"} :
        LET res == SQLUserValidateResult(users, userName, cleartextPwCheck, failed)
        IN  /\ ret' = [NoRet EXCEPT !.uid = res.uid, !.err = res.err]
            /\ call' = [NoCall EXCEPT !.op = "Validate", !.name = userName,
                                      !.pw = cleartextPwCheck, !.db = failed]
    /\ UNCHANGED <<userHandler, users, nextID, known, notUsers>>

RedisUserInsert(userName, plainPW) ==
    /\ userHandler = "redis"
    /\ nextID < MaxID
    /\ \E failed \in {"none", "hash", "exists", "incr", "hmset"} :
        LET res == RedisUserInsertResult(users, nextID, userName, plainPW, failed)
        IN  /\ users' = res.users
            /\ nextID' = res.nextID
            /\ known' = KnownInsert(known, userName, plainPW, res)
            /\ ret' = [NoRet EXCEPT !.uid = res.uid, !.err = res.err]
            /\ call' = [NoCall EXCEPT !.op = "Insert", !.name = userName, !.pw = plainPW,
                                      !.db = failed]
    /\ UNCHANGED <<userHandler, notUsers>>

RedisUserValidate(userName, cleartextPwCheck) ==
    /\ userHandler = "redis"
    /\ \E failed \in {"none", "exec", "check"} :
        LET res == RedisUserValidateResult(users, userName, cleartextPwCheck, failed)
        IN  /\ ret' = [NoRet EXCEPT !.uid = res.uid, !.err = res.err]
            /\ call' = [NoCall EXCEPT !.op = "Validate", !.name = userName,
                                      !.pw = cleartextPwCheck, !.db = failed]
    /\ UNCHANGED <<userHandler, users, nextID, known, notUsers>>

RedisUserUpdatePassword(userName, plainPW) ==
    /\ userHandler = "redis"
    /\ \E failed \in {"none", "hash", "exists", "hmset"} :
        LET res == RedisUserUpdatePasswordResult(users, userName, plainPW, failed)
        IN  /\ users' = res.users
            /\ known' = KnownUpdate(known, userName, plainPW, res)
            /\ ret' = [NoRet EXCEPT !.err = res.err]
            /\ call' = [NoCall EXCEPT !.op = "UpdatePassword", !.name = userName,
                                      !.pw = plainPW, !.db = failed]
    /\ UNCHANGED <<userHandler, nextID, notUsers>>

\* NewSQLUserHandler or NewRedisUserHandler over an empty store.
InitUsers ==
    /\ keys = <<>>
    /\ mutex = MutexFree
    /\ clock = 0
    /\ call = NoCall
    /\ ret = NoRet
    /\ life = [k \in Tokens |-> NoLife]
    /\ pc = [p \in Procs |-> "idle"]
    /\ frame = [p \in Procs |-> NoFrame]
    /\ result = [p \in Procs |-> NoRet]
    /\ mcIdent = 0
    /\ cache = <<>>
    /\ sessions = <<>>
    /\ userHandler \in {"sql", "redis"}
    /\ users = <<>>
    /\ nextID = 0
    /\ known = [n \in Names |-> Nil]
    /\ InitExtra

NextUsers ==
    \/ \E n \in Names, pw \in Passwords : SQLUserInsert(n, pw)
    \/ \E n \in Names, pw \in Passwords : SQLUserValidate(n, pw)
    \/ \E n \in Names, pw \in Passwords : RedisUserInsert(n, pw)
    \/ \E n \in Names, pw \in Passwords : RedisUserValidate(n, pw)
    \/ \E n \in Names, pw \in Passwords : RedisUserUpdatePassword(n, pw)

SpecUsers == InitUsers /\ [][NextUsers]_vars

\* ---------------------------------------- SQLConnector, default user scheme
\* The user functions of SQLConnector with MySQLUserQueries, over the same
\* table users, and LoginDefaultUser which also writes user_sessions.
ErrNoRows == "sql: no rows in result set"
ErrUserIDNotFound == "User with id wasn't found."

\* The ids a caller asks about.
UIDs == 1..MaxID

\* What the random source gives the session keys of a login.
LoginBytes == {"k1", NoBytes}

\* The usernames of the rows with the id.
RowsWithID(t, uid) == {n \in DOMAIN t : t[n].id = uid}

\* InsertDefaultUserScheme: GenerateHash, then the INSERT with is_active true.
InsertDefaultUserSchemeResult(t, last, now, username, plaintextPW, failed) ==
    IF failed = "hash" THEN [users |-> t, nextID |-> last, err |-> ErrHash]
    ELSE IF failed = "exec" \/ username \in DOMAIN t
    THEN [users |-> t, nextID |-> last, err |-> ErrSQL]
    ELSE [users |-> MapPut(t, username,
                           [id |-> last + 1, password |-> GenerateHash(plaintextPW),
                            is_active |-> TRUE, last_login |-> now]),
          nextID |-> last + 1, err |-> NoErr]

\* CheckUserPassword: SELECT password FROM users WHERE id = ?
CheckUserPasswordResult(t, uid, plaintextPW, failed) ==
    IF failed = "exec" THEN [ok |-> FALSE, err |-> ErrSQL]
    ELSE IF RowsWithID(t, uid) = {} THEN [ok |-> FALSE, err |-> ErrNoRows]
    ELSE IF failed = "check" THEN [ok |-> FALSE, err |-> ErrHash]
    ELSE LET n == CHOOSE n \in RowsWithID(t, uid) : TRUE
         IN  [ok |-> CheckPassword(t[n].password, plaintextPW), err |-> NoErr]

\* A lookup that only sees active users.
CheckDefaultUserPasswordResultActive(t, username, plaintextPW, failed) ==
    IF failed = "exec" THEN [uid |-> 0, ok |-> FALSE, err |-> ErrSQL]
    ELSE IF username \notin DOMAIN t \/ ~t[username].is_active
    THEN [uid |-> 0, ok |-> FALSE, err |-> ErrNoRows]
    ELSE IF failed = "check" THEN [uid |-> 0, ok |-> FALSE, err |-> ErrHash]
    ELSE [uid |-> t[username].id,
          ok |-> CheckPassword(t[username].password, plaintextPW), err |-> NoErr]

\* CheckDefaultUserPassword: SELECT id, password FROM users WHERE username = ?
\* The id is returned also when the password is wrong.
CheckDefaultUserPasswordResult(t, username, plaintextPW, failed) ==
    IF failed = "exec" THEN [uid |-> 0, ok |-> FALSE, err |-> ErrSQL]
    ELSE IF username \notin DOMAIN t THEN [uid |-> 0, ok |-> FALSE, err |-> ErrNoRows]
    ELSE IF failed = "check" THEN [uid |-> 0, ok |-> FALSE, err |-> ErrHash]
    ELSE [uid |-> t[username].id,
          ok |-> CheckPassword(t[username].password, plaintextPW), err |-> NoErr]

\* LoginDefaultUser: UPDATE users SET last_login = now WHERE id = uid, where
\* MySQL counts the rows it changed; then sessionConnector.GenSession(uid).
LoginDefaultUserResult(t, s, now, gen, uid, failed) ==
    IF failed = "exec"
    THEN [users |-> t, sessions |-> s, key |-> NoKey, err |-> ErrSQL]
    ELSE LET after == [n \in DOMAIN t |->
                          IF t[n].id = uid THEN [t[n] EXCEPT !.last_login = now] ELSE t[n]]
             rowsAffected == Cardinality({n \in DOMAIN t : after[n] # t[n]})
         IN  IF failed = "rows"
             THEN [users |-> after, sessions |-> s, key |-> NoKey, err |-> ErrSQL]
             ELSE IF rowsAffected = 0
             THEN [users |-> after, sessions |-> s, key |-> NoKey,
                   err |-> ErrUserIDNotFound]
             ELSE LET res == GenSessionResult(s, now, gen, uid,
                                              IF failed = "insert" THEN "exec" ELSE "none")
                  IN  [users |-> after, sessions |-> res.sessions, key |-> res.key,
                       err |-> res.err]

notDefaultUsers == <<keys, life, clock, mutex, pc, frame, result, mcIdent, cache,
                     userHandler, known, extra>>

InsertDefaultUserScheme(username, plaintextPW) ==
    /\ userHandler = "sql"
    /\ nextID < MaxID
    /\ \E failed \in {"none", "hash", "exec"} :
        LET res == InsertDefaultUserSchemeResult(users, nextID, clock, username,
                                                 plaintextPW, failed)
        IN  /\ users' = res.users
            /\ nextID' = res.nextID
            /\ ret' = [NoRet EXCEPT !.err = res.err]
            /\ call' = [NoCall EXCEPT !.op = "InsertDefaultUserScheme",
                                      !.name = username, !.pw = plaintextPW,
                                      !.db = failed]
    /\ UNCHANGED <<sessions, notDefaultUsers>>

CheckUserPassword(uid, plaintextPW) ==
    /\ userHandler = "sql"
    /\ \E failed \in {"none", "exec", "check"} :
        LET res == CheckUserPasswordResult(users, uid, plaintextPW, failed)
        IN  /\ ret' = [NoRet EXCEPT !.ok = res.ok, !.err = res.err]
            /\ call' = [NoCall EXCEPT !.op = "CheckUserPassword", !.uid = uid,
                                      !.pw = plaintextPW, !.db = failed]
    /\ UNCHANGED <<users, nextID, sessions, notDefaultUsers>>

CheckDefaultUserPassword(username, plaintextPW) ==
    /\ userHandler = "sql"
    /\ \E failed \in {"none", "exec", "check"} :
        LET res == CheckDefaultUserPasswordResult(users, username, plaintextPW, failed)
        IN  /\ ret' = [NoRet EXCEPT !.uid = res.uid, !.ok = res.ok, !.err = res.err]
            /\ call' = [NoCall EXCEPT !.op = "CheckDefaultUserPassword",
                                      !.name = username, !.pw = plaintextPW,
                                      !.db = failed]
    /\ UNCHANGED <<users, nextID, sessions, notDefaultUsers>>

LoginDefaultUser(uid) ==
    /\ userHandler = "sql"
    /\ \E b \in LoginBytes, failed \in {"none", "exec", "rows", "insert"} :
        LET res == LoginDefaultUserResult(users, sessions, clock, RandomBase64(b),
                                          uid, failed)
        IN  /\ users' = res.users
            /\ sessions' = res.sessions
            /\ ret' = [NoRet EXCEPT !.key = res.key, !.err = res.err]
            /\ call' = [NoCall EXCEPT !.op = "LoginDefaultUser", !.uid = uid,
                                      !.db = failed]
    /\ UNCHANGED <<nextID, notDefaultUsers>>

\* The application sets is_active of a user row: the package has no function
\* for it and tells the application to do it.
SetActive(username, active) ==
    /\ userHandler = "sql"
    /\ username \in DOMAIN users
    /\ users' = [users EXCEPT ![username].is_active = active]
    /\ ret' = NoRet
    /\ call' = [NoCall EXCEPT !.op = "SetActive", !.name = username]
    /\ UNCHANGED <<nextID, sessions, notDefaultUsers>>

InitDefaultUsers == InitUsers /\ userHandler = "sql"

\* Creating accounts, switching them active and inactive, verifying passwords.
NextDefaultUsers ==
    \/ \E n \in Names, pw \in Passwords : InsertDefaultUserScheme(n, pw)
    \/ \E n \in Names, pw \in Passwords : SQLUserInsert(n, pw)
    \/ \E n \in Names, pw \in Passwords : SQLUserValidate(n, pw)
    \/ \E uid \in UIDs, pw \in Passwords : CheckUserPassword(uid, pw)
    \/ \E n \in Names, pw \in Passwords : CheckDefaultUserPassword(n, pw)
    \/ \E n \in Names, active \in BOOLEAN : SetActive(n, active)

SpecDefaultUsers == InitDefaultUsers /\ [][NextDefaultUsers]_vars

\* Creating accounts and logging them in, as time passes.
NextLogin ==
    \/ \E n \in Names, pw \in Passwords : InsertDefaultUserScheme(n, pw)
    \/ \E uid \in UIDs : LoginDefaultUser(uid)
    \/ Tick

SpecLogin == InitDefaultUsers /\ [][NextLogin]_vars

\* ------------------------------- RedisUserHandler, concurrent callers
\* Insert runs its redis commands one by one: EXISTS, INCR, HMSET. Between two
\* commands of one caller the other caller can run its own.
notRedisConc == <<keys, life, clock, mutex, mcIdent, cache, sessions, call, ret,
                  userHandler, known, extra>>

\* GenerateHash, then on to EXISTS. fresh: the username has no account now.
CallRedisInsert(p, userName, plainPW) ==
    /\ pc[p] = "idle"
    /\ \E failed \in BOOLEAN :
        IF failed
        THEN Jump(p, "done", [NoFrame EXCEPT !.op = "Insert", !.name = userName,
                                 !.pw = plainPW,
                                 !.fresh = userkey(userName) \notin DOMAIN users],
                  [NoRet EXCEPT !.uid = NoUserID, !.err = ErrHash])
        ELSE Jump(p, "Exists", [NoFrame EXCEPT !.op = "Insert", !.name = userName,
                                   !.pw = plainPW,
                                   !.fresh = userkey(userName) \notin DOMAIN users],
                  NoRet)
    /\ UNCHANGED <<users, nextID, notRedisConc>>

\* handler.Client.Exists(userkey)
RedisInsertExists(p) ==
    /\ pc[p] = "Exists"
    /\ \E failed \in BOOLEAN :
        IF failed
        THEN Jump(p, "done", frame[p], [NoRet EXCEPT !.uid = NoUserID, !.err = ErrRedis])
        ELSE IF userkey(frame[p].name) \in DOMAIN users
        THEN Jump(p, "done", frame[p],
                  [NoRet EXCEPT !.uid = NoUserID, !.err = ErrUserExists])
        ELSE Jump(p, "Incr", frame[p], NoRet)
    /\ UNCHANGED <<users, nextID, notRedisConc>>

\* handler.Client.Incr(handler.NextIDKey)
RedisInsertIncr(p) ==
    /\ pc[p] = "Incr"
    /\ nextID < MaxID
    /\ \E failed \in BOOLEAN :
        IF failed
        THEN /\ Jump(p, "done", frame[p], [NoRet EXCEPT !.uid = NoUserID, !.err = ErrRedis])
             /\ UNCHANGED nextID
        ELSE /\ nextID' = nextID + 1
             /\ Jump(p, "HMSet", [frame[p] EXCEPT !.id = nextID + 1], NoRet)
    /\ UNCHANGED <<users, notRedisConc>>

\* handler.Client.HMSet(userkey, ...): sets the fields, also of a hash that is
\* there already.
RedisInsertHMSet(p) ==
    /\ pc[p] = "HMSet"
    /\ \E failed \in BOOLEAN :
        IF failed
        THEN /\ Jump(p, "done", frame[p], [NoRet EXCEPT !.uid = NoUserID, !.err = ErrRedis])
             /\ UNCHANGED users
        ELSE /\ users' = MapPut(users, userkey(frame[p].name),
                                [id |-> IDText(frame[p].id),
                                 password |-> GenerateHash(frame[p].pw)])
             /\ Jump(p, "done", frame[p], [NoRet EXCEPT !.uid = frame[p].id])
    /\ UNCHANGED <<nextID, notRedisConc>>

InitRedisConc == InitUsers /\ userHandler = "redis"

NextRedisConc ==
    \/ \E p \in Procs, n \in Names, pw \in Passwords : CallRedisInsert(p, n, pw)
    \/ \E p \in Procs : RedisInsertExists(p)
    \/ \E p \in Procs : RedisInsertIncr(p)
    \/ \E p \in Procs : RedisInsertHMSet(p)
    \/ \E p \in Procs : Return(p)

SpecRedisConc == InitRedisConc /\ [][NextRedisConc]_vars

\* ------------------------------------- SessionController.DeleteEntriesDaemon
\* The daemon goroutine, the helper goroutines it starts after each sweep, the
\* context and the channel next of capacity 1. A sweep is one DeleteInvalidKeys
\* of the controller, over the InMemoryHandler.
MaxSweeps == 2

\* A channel without a buffer.
NextUnbuffered == 1 - 1

\* make(chan bool, 1)
NextCapacity == 1

notDaemon == <<mutex, pc, frame, result, mcIdent, cache, sessions, accounts, redis,
               sqlHandler>>

\* c.DeleteInvalidKeys() as the daemon calls it; the error is only logged.
DaemonDeleteInvalidKeys ==
    LET now == CurrentTime
        res == DeleteInvalidKeysResult(keys, now)
    IN  /\ keys' = res.keys
        /\ ret' = [NoRet EXCEPT !.count = res.removed]
        /\ life' = LifeDeleteInvalid(life, now)
        /\ call' = [NoCall EXCEPT !.op = "DeleteInvalidKeys", !.now = now]

Swept(d) == [d EXCEPT !.sweeps = IF d.sweeps < MaxSweeps THEN d.sweeps + 1 ELSE d.sweeps]

\* DeleteEntriesDaemon(sleep, ctx, reportErr): go func; with a context, make
\* the channel and put the first token in it.
DeleteEntriesDaemon(ctx) ==
    /\ daemon.pc = "off"
    /\ daemon' = IF ctx = "nil"
                 THEN [daemon EXCEPT !.ctx = ctx, !.pc = "loop"]
                 ELSE [daemon EXCEPT !.ctx = ctx, !.pc = "select", !.next = 1]
    /\ UNCHANGED <<keys, life, call, ret, clock, notDaemon>>

\* ctx == nil: the sweep of the endless loop
DaemonLoopSweep ==
    /\ daemon.pc = "loop"
    /\ DaemonDeleteInvalidKeys
    /\ daemon' = [Swept(daemon) EXCEPT !.pc = "sleep"]
    /\ UNCHANGED <<clock, notDaemon>>

\* ctx == nil: time.Sleep(sleep) returns
DaemonLoopSleep ==
    /\ daemon.pc = "sleep"
    /\ daemon' = [daemon EXCEPT !.pc = "loop"]
    /\ UNCHANGED <<keys, life, call, ret, clock, notDaemon>>

\* case <-ctx.Done(): return
DaemonSelectDone ==
    /\ daemon.pc = "select"
    /\ daemon.ctx = "cancelled"
    /\ daemon' = [daemon EXCEPT !.pc = "returned"]
    /\ UNCHANGED <<keys, life, call, ret, clock, notDaemon>>

\* case <-next:
DaemonSelectNext ==
    /\ daemon.pc = "select"
    /\ daemon.next > 0
    /\ daemon' = [daemon EXCEPT !.pc = "sweep", !.next = daemon.next - 1]
    /\ UNCHANGED <<keys, life, call, ret, clock, notDaemon>>

\* the sweep of the case
DaemonSweep ==
    /\ daemon.pc = "sweep"
    /\ DaemonDeleteInvalidKeys
    /\ daemon' = [Swept(daemon) EXCEPT !.pc = "spawn"]
    /\ UNCHANGED <<clock, notDaemon>>

\* go func() { time.Sleep(sleep); next <- true }()
DaemonSpawn ==
    /\ daemon.pc = "spawn"
    /\ daemon' = [daemon EXCEPT !.pc = "select", !.sleeping = daemon.sleeping + 1]
    /\ UNCHANGED <<keys, life, call, ret, clock, notDaemon>>

\* a helper: time.Sleep(sleep) returns
HelperWake ==
    /\ daemon.sleeping > 0
    /\ daemon' = [daemon EXCEPT !.sleeping = daemon.sleeping - 1,
                                !.sending = daemon.sending + 1]
    /\ UNCHANGED <<keys, life, call, ret, clock, notDaemon>>

\* a helper: next <- true, which waits while the channel is full
HelperSend ==
    /\ daemon.sending > 0
    /\ daemon.next < NextCapacity
    /\ daemon' = [daemon EXCEPT !.sending = daemon.sending - 1,
                                !.next = daemon.next + 1]
    /\ UNCHANGED <<keys, life, call, ret, clock, notDaemon>>

\* the owner of the context cancels it
Cancel ==
    /\ daemon.ctx = "live"
    /\ daemon' = [daemon EXCEPT !.ctx = "cancelled"]
    /\ UNCHANGED <<keys, life, call, ret, clock, notDaemon>>

DaemonStep ==
    \/ DaemonLoopSweep
    \/ DaemonLoopSleep
    \/ DaemonSelectNext
    \/ DaemonSweep
    \/ DaemonSpawn

NextDaemon ==
    \/ \E ctx \in {"nil", "live", "cancelled"} : DeleteEntriesDaemon(ctx)
    \/ DaemonLoopSweep
    \/ DaemonLoopSleep
    \/ DaemonSelectDone
    \/ DaemonSelectNext
    \/ DaemonSweep
    \/ DaemonSpawn
    \/ HelperWake
    \/ HelperSend
    \/ Cancel
    \/ \E user \in Users : AddKey(user, MaxDuration)
    \/ Tick

\* The scheduler runs every goroutine that can run; a select whose Done case
\* is ready again and again takes it at some time.
SpecDaemon ==
    /\ Init /\ [][NextDaemon]_vars
    /\ WF_vars(DaemonStep)
    /\ SF_vars(DaemonSelectDone)
    /\ WF_vars(HelperWake)
    /\ WF_vars(HelperSend)

\* --------------------------------------------------- RedisSessionHandler
\* The session hashes "skey:<key>" and the per-user sets "usessions:<user>" in
\* a redis server. A redis key is <<prefix, name>>; the key the handler names
\* without a prefix is <<"", name>>. One caller; each call is one step, and the
\* goroutine CreateEntry starts runs as one later step. A command can fail.
RedisSessionPrefix == "skey:"
RedisUserPrefix == "usessions:"
NoPrefix == ""
MaxJobs == 1

\* Which user a token's record is made for: a user with two tokens, and a
\* user with none.
RedisOwned == {<<"u1", "k1">>, <<"u1", "k2">>}
RedisDurations == 1..MaxTime

\* TTL of a key without an expiration, and of a key that is not there.
NoExpiry == 0 - 1
NoSuchKey == 0 - 2

RedisTTL(db, k, now) ==
    IF k \notin DOMAIN db THEN NoSuchKey
    ELSE IF db[k].exp = NoExpiry THEN NoExpiry
    ELSE db[k].exp - now

\* EXPIRE: only a key that is there gets the expiration.
RedisExpire(db, k, now, d) ==
    IF k \in DOMAIN db THEN [db EXCEPT ![k].exp = now + d] ELSE db

\* SADD: makes the set when it is not there.
RedisSAdd(db, k, member) ==
    IF k \in DOMAIN db
    THEN [db EXCEPT ![k].members = db[k].members \cup {member}]
    ELSE MapPut(db, k, [members |-> {member}, exp |-> NoExpiry])

RedisSMembers(db, k) == IF k \in DOMAIN db THEN db[k].members ELSE {}

\* HMSET: sets the fields, also of a hash that is there; its expiration stays.
RedisHMSet(db, k, fields) ==
    MapPut(db, k, [fields |-> fields,
                   exp |-> IF k \in DOMAIN db THEN db[k].exp ELSE NoExpiry])

\* DEL: removes the keys that are there and counts them.
RedisDel(db, ks) ==
    [db |-> [k \in (DOMAIN db) \ ks |-> db[k]],
     numDel |-> Cardinality(ks \cap DOMAIN db)]

\* CreateEntry: HMSET and EXPIRE of the session hash; then the goroutine.
RedisCreateEntryResult(db, now, user, key, validDuration, failed) ==
    LET data == NewSessionKeyData(user, now, now + validDuration)
        redisKey == <<RedisSessionPrefix, key>>
        set == RedisHMSet(db, redisKey,
                          [User |-> FormatUser(user),
                           CreationTime |-> FormatTime(data.CreationTime),
                           ValidUntil |-> FormatTime(data.ValidUntil)])
    IN  IF failed = "hmset"
        THEN [db |-> db, data |-> Nil, err |-> ErrRedis, started |-> FALSE]
        ELSE IF failed = "expire"
        THEN [db |-> set, data |-> Nil, err |-> ErrRedis, started |-> FALSE]
        ELSE [db |-> RedisExpire(set, redisKey, now, validDuration),
              data |-> <<data>>, err |-> NoErr, started |-> TRUE]

\* GetData: HMGET of the three fields, and their conversion.
RedisGetDataResult(db, key, failed) ==
    LET redisKey == <<RedisSessionPrefix, key>>
    IN  IF failed THEN [data |-> Nil, err |-> ErrRedis]
        ELSE IF redisKey \notin DOMAIN db THEN [data |-> Nil, err |-> ErrKeyNotFound]
        ELSE LET entry == db[redisKey].fields
             IN  [data |-> <<NewSessionKeyData(ConvertUser(entry.User),
                                               ParseTime(entry.CreationTime),
                                               ParseTime(entry.ValidUntil))>>,
                  err |-> NoErr]

\* delUserKeys: SMEMBERS of the user's set; with delAll the members as they
\* are, otherwise "skey:<member>" of the members whose hash is gone; then DEL
\* of these keys.
delUserKeys(db, userIdentifier, delAll, failed) ==
    IF failed = "smembers" THEN [db |-> db, count |-> 0, err |-> ErrRedis]
    ELSE LET allUserKeys == RedisSMembers(db, userIdentifier)
             keysForDelete ==
                IF delAll
                THEN {<<NoPrefix, userKey>> : userKey \in allUserKeys}
                ELSE {<<RedisSessionPrefix, userKey>> :
                        userKey \in {k \in allUserKeys :
                                        /\ failed # "exists"
                                        /\ <<RedisSessionPrefix, k>> \notin DOMAIN db}}
         IN  IF keysForDelete # {}
             THEN IF failed = "del"
                  THEN [db |-> db, count |-> 0, err |-> ErrRedis]
                  ELSE LET del == RedisDel(db, keysForDelete)
                       IN  [db |-> del.db, count |-> del.numDel, err |-> NoErr]
             ELSE [db |-> db, count |-> 0, err |-> NoErr]

\* The goroutine of CreateEntry: SADD, TTL, EXPIRE of the user's set, then
\* delUserKeys(userIdentifier, false). Its errors are only logged.
RedisBackgroundResult(db, now, job, failed) ==
    LET userIdentifier == <<RedisUserPrefix, FormatUser(job.user)>>
        added == IF failed = "sadd" THEN db ELSE RedisSAdd(db, userIdentifier, job.key)
        ttl == RedisTTL(added, userIdentifier, now)
        userExp == IF failed # "ttl" /\ ttl > job.dur THEN ttl ELSE job.dur
        expiring == IF failed = "expire" THEN added
                    ELSE RedisExpire(added, userIdentifier, now, userExp)
    IN  delUserKeys(expiring, userIdentifier, FALSE,
                    IF failed \in {"smembers", "exists", "del"} THEN failed ELSE "none").db

notRedis == <<keys, life, mutex, pc, frame, result, mcIdent, cache, sessions, accounts,
              daemon, sqlHandler>>

RedisCreateEntry(user, key, validDuration) ==
    /\ Cardinality(redis.jobs) < MaxJobs
    /\ \E failed \in {"none", "hmset", "expire"} :
        LET res == RedisCreateEntryResult(redis.db, CurrentTime, user, key,
                                          validDuration, failed)
        IN  /\ redis' = [db |-> res.db,
                         jobs |-> IF res.started
                                  THEN redis.jobs \cup {[user |-> user, key |-> key,
                                                         dur |-> validDuration]}
                                  ELSE redis.jobs]
            /\ ret' = [NoRet EXCEPT !.data = res.data, !.err = res.err]
            /\ call' = [NoCall EXCEPT !.op = "CreateEntry", !.user = user, !.key = key,
                                      !.dur = validDuration, !.db = failed]
    /\ UNCHANGED <<clock, notRedis>>

RedisBackground ==
    /\ \E job \in redis.jobs,
          failed \in {"none", "sadd", "ttl", "expire", "smembers", "exists", "del"} :
        /\ redis' = [db |-> RedisBackgroundResult(redis.db, CurrentTime, job, failed),
                     jobs |-> redis.jobs \ {job}]
        /\ ret' = NoRet
        /\ call' = [NoCall EXCEPT !.op = "background", !.user = job.user,
                                  !.db = failed]
    /\ UNCHANGED <<clock, notRedis>>

RedisGetData(key) ==
    /\ \E failed \in BOOLEAN :
        LET res == RedisGetDataResult(redis.db, key, failed)
        IN  /\ ret' = [NoRet EXCEPT !.data = res.data, !.err = res.err]
            /\ call' = [NoCall EXCEPT !.op = "GetData", !.key = key,
                                      !.db = IF failed THEN "hmget" ELSE "none"]
    /\ UNCHANGED <<redis, clock, notRedis>>

RedisDeleteKey(key) ==
    /\ \E failed \in BOOLEAN :
        /\ redis' = [redis EXCEPT !.db = IF failed THEN redis.db
                                         ELSE RedisDel(redis.db,
                                                       {<<RedisSessionPrefix, key>>}).db]
        /\ ret' = [NoRet EXCEPT !.err = IF failed THEN ErrRedis ELSE NoErr]
        /\ call' = [NoCall EXCEPT !.op = "DeleteKey", !.key = key,
                                  !.db = IF failed THEN "del" ELSE "none"]
    /\ UNCHANGED <<clock, notRedis>>

RedisDeleteEntriesForUser(user) ==
    /\ \E failed \in {"none", "smembers", "del"} :
        LET res == delUserKeys(redis.db, <<RedisUserPrefix, FormatUser(user)>>, TRUE,
                               failed)
        IN  /\ redis' = [redis EXCEPT !.db = res.db]
            /\ ret' = [NoRet EXCEPT !.count = res.count, !.err = res.err]
            /\ call' = [NoCall EXCEPT !.op = "DeleteEntriesForUser", !.user = user,
                                      !.db = failed]
    /\ UNCHANGED <<clock, notRedis>>

\* All expiration is left to redis: nothing is done.
RedisDeleteInvalidKeys ==
    /\ ret' = NoRet
    /\ call' = [NoCall EXCEPT !.op = "DeleteInvalidKeys"]
    /\ UNCHANGED <<redis, clock, notRedis>>

\* Time passes, and redis drops the keys whose expiration is reached.
RedisTick ==
    /\ clock < MaxTime
    /\ clock' = clock + 1
    /\ redis' = [redis EXCEPT !.db =
                    [k \in {e \in DOMAIN redis.db :
                                redis.db[e].exp = NoExpiry \/ clock + 1 < redis.db[e].exp}
                        |-> redis.db[k]]]
    /\ UNCHANGED <<call, ret, notRedis>>

NextRedis ==
    \/ \E o \in RedisOwned, d \in RedisDurations : RedisCreateEntry(o[1], o[2], d)
    \/ RedisBackground
    \/ \E key \in Tokens : RedisGetData(key)
    \/ \E key \in Tokens : RedisDeleteKey(key)
    \/ \E user \in Users : RedisDeleteEntriesForUser(user)
    \/ RedisDeleteInvalidKeys
    \/ RedisTick

SpecRedis == Init /\ [][NextRedis]_vars

\* ---------------------------------------------------------- SQLSessionHandler
\* The handler over its table (session_key is the primary key), with the
\* mutex it takes when it was constructed with lockDB. Each caller runs one
\* operation at a time: the lock when blockDB is set, then the statement, and
\* with the return the deferred unlock.
\* A DATETIME column keeps whole seconds; MySQL rounds the fraction.
StoreDatetime(t) == ((t + TicksPerSecond \div 2) \div TicksPerSecond) * TicksPerSecond

CountFailed == 0 - 1

\* GetData takes the lock shared, every other operation exclusively.
SQLHLockFor(op) ==
    IF op = "GetData" THEN "RLock" ELSE "Lock"

SQLHGetDataResult(t, key, failed) ==
    IF failed = "exec" THEN [data |-> Nil, err |-> ErrSQL]
    ELSE IF key \notin DOMAIN t THEN [data |-> Nil, err |-> ErrKeyNotFound]
    ELSE IF failed = "time" THEN [data |-> Nil, err |-> ErrSQL]
    ELSE [data |-> <<NewSessionKeyData(t[key].User, t[key].CreationTime,
                                       t[key].ValidUntil)>>,
          err |-> NoErr]

\* INSERT INTO ...: fails on a session_key that is there.
SQLHCreateEntryResult(t, user, key, validDuration, failed) ==
    LET data == CurrentTimeKeyData(user, validDuration)
    IN  IF failed = "exec" \/ key \in DOMAIN t
        THEN [table |-> t, data |-> Nil, err |-> ErrSQL]
        ELSE [table |-> MapPut(t, key,
                               NewSessionKeyData(user, StoreDatetime(data.CreationTime),
                                                 StoreDatetime(data.ValidUntil))),
              data |-> <<data>>, err |-> NoErr]

\* The two deletes that count: the statement; then RowsAffected, whose error
\* is not returned.
SQLHCounted(t, gone, failed) ==
    IF failed = "exec" THEN [table |-> t, count |-> CountFailed, err |-> ErrSQL]
    ELSE LET after == [k \in (DOMAIN t) \ gone |-> t[k]]
         IN  IF failed = "rows"
             THEN [table |-> after, count |-> CountFailed, err |-> NoErr]
             ELSE [table |-> after, count |-> Cardinality(gone), err |-> NoErr]

\* DELETE FROM ... WHERE user_id = ?
SQLHDeleteEntriesForUserResult(t, user, failed) ==
    SQLHCounted(t, {k \in DOMAIN t : t[k].User = user}, failed)

\* DELETE FROM ... WHERE ? > valid_until
SQLHDeleteInvalidKeysResult(t, now, failed) ==
    SQLHCounted(t, {k \in DOMAIN t : now > t[k].ValidUntil}, failed)

\* DELETE FROM ... WHERE session_key = ?
SQLHDeleteKeyResult(t, key, failed) ==
    IF failed = "exec" THEN [table |-> t, err |-> ErrSQL]
    ELSE [table |-> MapDelete(t, key), err |-> NoErr]

notSQLHandler == <<keys, call, ret, life, mcIdent, cache, sessions, accounts, daemon, redis,
                   blockDB>>

SQLHOps == {"Init", "GetData", "CreateEntry", "DeleteEntriesForUser", "DeleteInvalidKeys",
            "DeleteKey"}

\* The call up to the lock: only DeleteInvalidKeys reads the clock before it.
CallSQLHandler(p, op, user, key, validDuration) ==
    /\ pc[p] = "idle"
    /\ Jump(p, IF blockDB THEN SQLHLockFor(op) ELSE "Exec",
            [NoFrame EXCEPT !.op = op, !.user = user, !.key = key, !.dur = validDuration,
                            !.now = IF op = "DeleteInvalidKeys" THEN CurrentTime ELSE 0],
            NoRet)
    /\ UNCHANGED <<mutex, clock, table, notSQLHandler>>

InStatement(p) == pc[p] \in {"Exec", "locked", "rlocked"}

\* The deferred Unlock or RUnlock of the goroutine that holds the lock.
SQLHUnlock(m, p) ==
    IF m.w = p THEN Unlock(m) ELSE RUnlockBy(m, p)

\* The statement, the result, and the return with its deferred unlock.
SQLHExec(p) ==
    /\ InStatement(p)
    /\ frame[p].op \in SQLHOps
    /\ \E failed \in {"none", "exec", "time", "rows"} :
        LET f == frame[p]
            done(r, t) == /\ Jump(p, "done", f, r)
                          /\ table' = t
        IN  CASE f.op = "Init" ->
                    /\ failed \in {"none", "exec"}
                    /\ done([NoRet EXCEPT !.err = IF failed = "exec" THEN ErrSQL ELSE NoErr],
                            table)
              [] f.op = "GetData" ->
                    /\ failed \in {"none", "exec", "time"}
                    /\ LET res == SQLHGetDataResult(table, f.key, failed)
                       IN  done([NoRet EXCEPT !.data = res.data, !.err = res.err], table)
              [] f.op = "CreateEntry" ->
                    /\ failed \in {"none", "exec"}
                    /\ LET res == SQLHCreateEntryResult(table, f.user, f.key, f.dur, failed)
                       IN  done([NoRet EXCEPT !.data = res.data, !.err = res.err],
                                res.table)
              [] f.op = "DeleteEntriesForUser" ->
                    /\ failed \in {"none", "exec", "rows"}
                    /\ LET res == SQLHDeleteEntriesForUserResult(table, f.user, failed)
                       IN  done([NoRet EXCEPT !.count = res.count, !.err = res.err],
                                res.table)
              [] f.op = "DeleteInvalidKeys" ->
                    /\ failed \in {"none", "exec", "rows"}
                    /\ LET res == SQLHDeleteInvalidKeysResult(table, f.now, failed)
                       IN  done([NoRet EXCEPT !.count = res.count, !.err = res.err],
                                res.table)
              [] f.op = "DeleteKey" ->
                    /\ failed \in {"none", "exec"}
                    /\ LET res == SQLHDeleteKeyResult(table, f.key, failed)
                       IN  done([NoRet EXCEPT !.err = res.err], res.table)
    /\ mutex' = IF blockDB THEN SQLHUnlock(mutex, p) ELSE mutex
    /\ UNCHANGED <<clock, notSQLHandler>>

SQLHReturn(p) ==
    /\ pc[p] = "done"
    /\ Jump(p, "idle", NoFrame, NoRet)
    /\ UNCHANGED <<mutex, clock, table, notSQLHandler>>

SQLHTick ==
    /\ clock < MaxTime
    /\ clock' = clock + 1
    /\ UNCHANGED <<mutex, pc, frame, result, table, notSQLHandler>>

\* NewSQLSessionHandler(db, t, tableName, userIDType, lockDB)
InitSQLHandler ==
    /\ keys = <<>>
    /\ mutex = MutexFree
    /\ clock = 0
    /\ call = NoCall
    /\ ret = NoRet
    /\ life = [k \in Tokens |-> NoLife]
    /\ pc = [p \in Procs |-> "idle"]
    /\ frame = [p \in Procs |-> NoFrame]
    /\ result = [p \in Procs |-> NoRet]
    /\ mcIdent = 0
    /\ cache = <<>>
    /\ sessions = <<>>
    /\ userHandler = ""
    /\ users = <<>>
    /\ nextID = 0
    /\ known = [n \in Names |-> Nil]
    /\ daemon = NoDaemon
    /\ redis = NoRedis
    /\ blockDB \in BOOLEAN
    /\ table = <<>>

NextSQLHandler ==
    \/ \E p \in Procs, op \in SQLHOps, o \in OwnedTokens, d \in ConcDurations :
            CallSQLHandler(p, op,
                           IF op \in {"CreateEntry", "DeleteEntriesForUser"} THEN o[1] ELSE "",
                           IF op \in {"GetData", "CreateEntry", "DeleteKey"}
                           THEN o[2] ELSE NoKey,
                           IF op = "CreateEntry" THEN d ELSE 0)
    \/ \E p \in Procs : Lock(p)
    \/ \E p \in Procs : RLock(p)
    \/ \E p \in Procs : SQLHExec(p)
    \/ \E p \in Procs : SQLHReturn(p)
    \/ SQLHTick

SpecSQLHandler == InitSQLHandler /\ [][NextSQLHandler]_vars

\* ------------------------------- RedisSessionHandler, the goroutines by command
\* The goroutine CreateEntry starts runs its commands one by one, and the
\* goroutines of several CreateEntry calls interleave. call.db keeps "failed"
\* once a command has failed.
MaxBackground == 2

Failed(failed) == IF failed THEN [NoCall EXCEPT !.db = "failed"] ELSE call

JobAt(job, to, userExp) ==
    (redis.jobs \ {job}) \cup {[job EXCEPT !.pc = to, !.userExp = userExp]}

RedisJobCreateEntry(user, key, validDuration) ==
    /\ Cardinality(redis.jobs) < MaxBackground
    /\ \E failed \in {"none", "hmset", "expire"} :
        LET res == RedisCreateEntryResult(redis.db, CurrentTime, user, key,
                                          validDuration, failed)
        IN  /\ redis' = [db |-> res.db,
                         jobs |-> IF res.started
                                  THEN redis.jobs \cup {[user |-> user, key |-> key,
                                                         dur |-> validDuration,
                                                         pc |-> "SAdd", userExp |-> 0]}
                                  ELSE redis.jobs]
            /\ call' = Failed(failed # "none")
    /\ UNCHANGED <<ret, clock, notRedis>>

\* handler.Client.SAdd(userIdentifier, key)
RedisJobSAdd ==
    /\ \E job \in redis.jobs, failed \in BOOLEAN :
        /\ job.pc = "SAdd"
        /\ redis' = [db |-> IF failed THEN redis.db
                            ELSE RedisSAdd(redis.db,
                                           <<RedisUserPrefix, FormatUser(job.user)>>,
                                           job.key),
                     jobs |-> JobAt(job, "TTL", job.userExp)]
        /\ call' = Failed(failed)
    /\ UNCHANGED <<ret, clock, notRedis>>

\* userExp := validDuration; the TTL of the set replaces it when it is longer.
RedisJobTTL ==
    /\ \E job \in redis.jobs, failed \in BOOLEAN :
        /\ job.pc = "TTL"
        /\ LET ttl == RedisTTL(redis.db, <<RedisUserPrefix, FormatUser(job.user)>>,
                               CurrentTime)
               userExp == IF ~failed /\ ttl > job.dur THEN ttl ELSE job.dur
           IN  redis' = [redis EXCEPT !.jobs =
                            JobAt(job, "Expire", userExp)]
        /\ call' = Failed(failed)
    /\ UNCHANGED <<ret, clock, notRedis>>

\* handler.Client.Expire(userIdentifier, userExp)
RedisJobExpire ==
    /\ \E job \in redis.jobs, failed \in BOOLEAN :
        /\ job.pc = "Expire"
        /\ redis' = [db |-> IF failed THEN redis.db
                            ELSE RedisExpire(redis.db,
                                             <<RedisUserPrefix, FormatUser(job.user)>>,
                                             CurrentTime, job.userExp),
                     jobs |-> JobAt(job, "delUserKeys", job.userExp)]
        /\ call' = Failed(failed)
    /\ UNCHANGED <<ret, clock, notRedis>>

\* handler.delUserKeys(userIdentifier, false), and the goroutine ends.
RedisJobDelUserKeys ==
    /\ \E job \in redis.jobs, failed \in {"none", "smembers", "exists", "del"} :
        /\ job.pc = "delUserKeys"
        /\ redis' = [db |-> delUserKeys(redis.db,
                                        <<RedisUserPrefix, FormatUser(job.user)>>,
                                        FALSE, failed).db,
                     jobs |-> redis.jobs \ {job}]
        /\ call' = Failed(failed # "none")
    /\ UNCHANGED <<ret, clock, notRedis>>

NextRedisJobs ==
    \/ \E o \in RedisOwned, d \in RedisDurations : RedisJobCreateEntry(o[1], o[2], d)
    \/ RedisJobSAdd
    \/ RedisJobTTL
    \/ RedisJobExpire
    \/ RedisJobDelUserKeys
    \/ RedisTick

SpecRedisJobs == Init /\ [][NextRedisJobs]_vars

\* ------------------------- MemcachedSessionHandler, concurrent callers
\* Each caller runs one operation of the handler at a time, command by
\* command: a command to memcached, a call of the parent (atomic under the
\* parent's lock), the update of the identifier. The memcached client answers
\* every command, and no time passes.
notMCConc == <<mutex, clock, call, ret, sessions, accounts, extra>>

\* The in-flight GetData of a token lose "started after the deletion" when the
\* token gets a record again.
Recreated(f, key, created) ==
    IF created.err = NoErr THEN Disturb(f, {key}) ELSE f

CallMCGetData(p, key) ==
    /\ pc[p] = "idle"
    /\ Jump(p, "Client.Get",
            [NoFrame EXCEPT !.op = "GetData", !.key = key,
                            !.fresh = life[key].op \in {"DeleteKey", "DeleteEntriesForUser"}],
            NoRet)
    /\ UNCHANGED <<keys, life, mcIdent, cache, notMCConc>>

\* item, err := handler.Client.Get(memcachedKey)
MCGetDataGet(p) ==
    /\ pc[p] = "Client.Get"
    /\ LET got == ClientGet(cache, formatKeyEntry(frame[p].key), FALSE)
       IN  IF got.err = NoErr
           THEN Jump(p, "done", frame[p],
                     [NoRet EXCEPT !.data = <<parseJSONData(got.item[1].value)>>])
           ELSE Jump(p, "Parent.GetData", frame[p], NoRet)
    /\ UNCHANGED <<keys, life, mcIdent, cache, notMCConc>>

\* parentData, parentErr := handler.Parent.GetData(key)
MCGetDataParent(p) ==
    /\ pc[p] = "Parent.GetData"
    /\ LET parent == GetDataResult(keys, frame[p].key)
       IN  IF parent.err # NoErr
           THEN Jump(p, "done", frame[p],
                     [NoRet EXCEPT !.data = parent.data, !.err = parent.err])
           ELSE Jump(p, "setMemcached", [frame[p] EXCEPT !.data = parent.data], NoRet)
    /\ UNCHANGED <<keys, life, mcIdent, cache, notMCConc>>

\* handler.setMemcached(key, data), of GetData and of CreateEntry: the key is
\* formatted with the identifier of this moment.
MCSetMemcached(p) ==
    /\ pc[p] = "setMemcached"
    /\ cache' = setMemcached(cache, frame[p].key, frame[p].data[1], FALSE)
    /\ Jump(p, "done", frame[p], [NoRet EXCEPT !.data = frame[p].data])
    /\ UNCHANGED <<keys, life, mcIdent, notMCConc>>

CallMCCreateEntry(p, user, key, validDuration) ==
    /\ pc[p] = "idle"
    /\ Jump(p, "Parent.CreateEntry",
            [NoFrame EXCEPT !.op = "CreateEntry", !.key = key, !.user = user,
                            !.dur = validDuration], NoRet)
    /\ UNCHANGED <<keys, life, mcIdent, cache, notMCConc>>

\* data, parentErr := handler.Parent.CreateEntry(user, key, validDuration)
MCCreateEntryParent(p) ==
    /\ pc[p] = "Parent.CreateEntry"
    /\ LET created == CreateEntryResult(keys, frame[p].user, frame[p].key, frame[p].dur)
       IN  /\ keys' = created.keys
           /\ life' = LifeCreate(life, frame[p].key, frame[p].user, created)
           /\ pc' = [pc EXCEPT ![p] = IF created.err # NoErr THEN "done"
                                      ELSE "setMemcached"]
           /\ frame' = [Recreated(frame, frame[p].key, created)
                            EXCEPT ![p] = [frame[p] EXCEPT !.data = created.data]]
           /\ result' = [result EXCEPT ![p] = [NoRet EXCEPT !.data = created.data,
                                                            !.err = created.err]]
    /\ UNCHANGED <<mcIdent, cache, notMCConc>>

CallMCDeleteKey(p, key) ==
    /\ pc[p] = "idle"
    /\ Jump(p, "Client.Delete", [NoFrame EXCEPT !.op = "DeleteKey", !.key = key], NoRet)
    /\ UNCHANGED <<keys, life, mcIdent, cache, notMCConc>>

\* handler.Client.Delete(handler.formatKeyEntry(key))
MCDeleteKeyDelete(p) ==
    /\ pc[p] = "Client.Delete"
    /\ cache' = ClientDelete(cache, formatKeyEntry(frame[p].key), FALSE)
    /\ Jump(p, "Parent.DeleteKey", frame[p], NoRet)
    /\ UNCHANGED <<keys, life, mcIdent, notMCConc>>

\* return handler.Parent.DeleteKey(key)
MCDeleteKeyParent(p) ==
    /\ pc[p] = "Parent.DeleteKey"
    /\ keys' = DeleteKeyResult(keys, frame[p].key)
    /\ life' = LifeDeleteKey(life, frame[p].key)
    /\ Jump(p, "done", frame[p], NoRet)
    /\ UNCHANGED <<mcIdent, cache, notMCConc>>

CallMCDeleteEntriesForUser(p, user) ==
    /\ pc[p] = "idle"
    /\ Jump(p, "updateIdentifier",
            [NoFrame EXCEPT !.op = "DeleteEntriesForUser", !.user = user], NoRet)
    /\ UNCHANGED <<keys, life, mcIdent, cache, notMCConc>>

\* handler.updateCurrentSessionKeyIdentifier()
MCDeleteEntriesForUserUpdate(p) ==
    /\ pc[p] = "updateIdentifier"
    /\ \E drawn \in Idents : mcIdent' = drawn
    /\ Jump(p, "Parent.DeleteEntriesForUser", frame[p], NoRet)
    /\ UNCHANGED <<keys, life, cache, notMCConc>>

\* return handler.Parent.DeleteEntriesForUser(user)
MCDeleteEntriesForUserParent(p) ==
    /\ pc[p] = "Parent.DeleteEntriesForUser"
    /\ LET res == DeleteEntriesForUserResult(keys, frame[p].user)
       IN  /\ keys' = res.keys
           /\ Jump(p, "done", frame[p], [NoRet EXCEPT !.count = res.removed])
    /\ life' = LifeDeleteUser(life, frame[p].user)
    /\ UNCHANGED <<mcIdent, cache, notMCConc>>

NextMCConc ==
    \/ \E p \in Procs, key \in Tokens : CallMCGetData(p, key)
    \/ \E p \in Procs : MCGetDataGet(p)
    \/ \E p \in Procs : MCGetDataParent(p)
    \/ \E p \in Procs : MCSetMemcached(p)
    \/ \E p \in Procs, o \in OwnedTokens : CallMCCreateEntry(p, o[1], o[2], MaxDuration)
    \/ \E p \in Procs : MCCreateEntryParent(p)
    \/ \E p \in Procs, key \in Tokens : CallMCDeleteKey(p, key)
    \/ \E p \in Procs : MCDeleteKeyDelete(p)
    \/ \E p \in Procs : MCDeleteKeyParent(p)
    \/ \E p \in Procs, user \in Users : CallMCDeleteEntriesForUser(p, user)
    \/ \E p \in Procs : MCDeleteEntriesForUserUpdate(p)
    \/ \E p \in Procs : MCDeleteEntriesForUserParent(p)
    \/ \E p \in Procs : Return(p)

SpecMCConc == InitMC /\ [][NextMCConc]_vars

\* ------------------------------------ SQLConnector, a check in two statements
\* isValidSessionFromColumn runs its SELECT and its UPDATE as two statements
\* with no transaction around them; between the two, other connections run
\* GenSession, CleanSessions and RemoveSessionForUser, each one statement.
\* An update that inserts the row when it is not there.
UpdateLastSeenUpsert(t, now, checkKey) ==
    [sessions |-> IF checkKey \in DOMAIN t THEN [t EXCEPT ![checkKey].last_seen = now]
                  ELSE MapPut(t, checkKey,
                              [user_id |-> "u1", login_time |-> now, last_seen |-> now]),
     rows |-> 1]

\* UPDATE user_sessions SET last_seen = now WHERE session_key = checkKey, and
\* the number of rows MySQL changed.
UpdateLastSeen(t, now, checkKey) ==
    [sessions |-> IF checkKey \in DOMAIN t THEN [t EXCEPT ![checkKey].last_seen = now]
                  ELSE t,
     rows |-> IF checkKey \in DOMAIN t /\ t[checkKey].last_seen # now THEN 1 ELSE 0]

notSQLConc == <<keys, life, clock, mutex, call, ret, mcIdent, cache, accounts, extra>>

CallIsValidSession(p, validDuration, checkKey, columnName) ==
    /\ pc[p] = "idle"
    /\ Jump(p, "QueryRow",
            [NoFrame EXCEPT !.op = "IsValidSession", !.key = checkKey,
                            !.dur = validDuration, !.column = columnName], NoRet)
    /\ UNCHANGED <<sessions, notSQLConc>>

\* The SELECT, the reading of the time, and CheckSessionFromTime.
SQLQueryRow(p) ==
    /\ pc[p] = "QueryRow"
    /\ \E failed \in {"none", "exec", "time"} :
        LET f == [frame[p] EXCEPT !.db = failed]
            checkKey == frame[p].key
        IN  IF failed = "exec"
            THEN Jump(p, "done", f, [NoRet EXCEPT !.err = ErrSQL])
            ELSE IF checkKey \notin DOMAIN sessions
            THEN Jump(p, "done", f, NoRet)
            ELSE IF failed = "time"
            THEN Jump(p, "done", f, [NoRet EXCEPT !.err = ErrSQL])
            ELSE IF CheckSessionFromTime(CurrentTime, frame[p].dur,
                                         sessions[checkKey][frame[p].column])
            THEN Jump(p, "Exec", [f EXCEPT !.now = CurrentTime,
                                           !.data = <<sessions[checkKey].user_id>>],
                      NoRet)
            ELSE Jump(p, "done", f, NoRet)
    /\ UNCHANGED <<sessions, notSQLConc>>

\* The UPDATE of last_seen. fresh: the row was there for it.
SQLExecUpdate(p) ==
    /\ pc[p] = "Exec"
    /\ \E failed \in BOOLEAN :
        LET res == UpdateLastSeen(sessions, frame[p].now, frame[p].key)
            f == [frame[p] EXCEPT !.fresh = frame[p].key \in DOMAIN sessions,
                                  !.db = IF failed THEN "update" ELSE "none"]
        IN  IF failed
            THEN /\ Jump(p, "done", f, [NoRet EXCEPT !.id = frame[p].data, !.err = ErrSQL])
                 /\ UNCHANGED sessions
            ELSE /\ sessions' = res.sessions
                 /\ Jump(p, "done", f, [NoRet EXCEPT !.id = frame[p].data,
                                                     !.count = res.rows])
    /\ UNCHANGED notSQLConc

\* The statements of the other connections, each atomic in the database.
OtherGenSession(userID) ==
    /\ \E b \in RandomBytes, failed \in {"none", "exec"} :
        sessions' = GenSessionResult(sessions, CurrentTime, RandomBase64(b), userID,
                                     failed).sessions
    /\ UNCHANGED <<pc, frame, result, notSQLConc>>

OtherCleanSessions(validDuration) ==
    /\ \E failed \in {"none", "exec"} :
        sessions' = CleanSessionsResult(sessions, CurrentTime, validDuration, failed).sessions
    /\ UNCHANGED <<pc, frame, result, notSQLConc>>

OtherRemoveSessionForUser(userID) ==
    /\ \E failed \in {"none", "exec"} :
        sessions' = IF failed = "exec" THEN sessions
                    ELSE [k \in {e \in DOMAIN sessions : sessions[e].user_id # userID}
                            |-> sessions[k]]
    /\ UNCHANGED <<pc, frame, result, notSQLConc>>

\* The goroutines that check a session.
Checkers == {"p1"}

NextSQLConc ==
    \/ \E p \in Checkers, d \in SQLDurations, checkKey \in Tokens,
          columnName \in {"login_time", "last_seen"} :
            CallIsValidSession(p, d, checkKey, columnName)
    \/ \E p \in Checkers : SQLQueryRow(p)
    \/ \E p \in Checkers : SQLExecUpdate(p)
    \/ \E p \in Checkers : Return(p)
    \/ \E userID \in Users : OtherGenSession(userID)
    \/ \E d \in SQLDurations : OtherCleanSessions(d)
    \/ \E userID \in Users : OtherRemoveSessionForUser(userID)
    \/ Tick

SpecSQLConc == Init /\ [][NextSQLConc]_vars

\* ------------------------------------------------------------------ claims
\* The step just taken was a call of op (every call sets call; Tick moves
\* only the clock).
Did(op) == call'.op = op /\ clock' = clock

Without(m, gone) == [k \in (DOMAIN m) \ gone |-> m[k]]

\* C1: after AddKey(u, d), d > 0, has returned key k without error, and no
\* delete call has been about k or u since, a ValidateSession carrying k whose
\* clock reading is not after the returned record's ValidUntil returns the data
\* of user u and no error.
C1_AddKeyThenValidate ==
    \A k \in Tokens :
        ( /\ call.op = "ValidateSession" /\ call.key = k
          /\ life[k].op = "CreateEntry"
          /\ life[k].data[1].ValidUntil > life[k].data[1].CreationTime
          /\ call.now <= life[k].data[1].ValidUntil )
        => /\ ret.err = NoErr
           /\ ret.data # Nil
           /\ ret.data[1].User = life[k].user

C1_Witness ==
    /\ call.op = "ValidateSession" /\ call.key = "k1"
    /\ life["k1"].op = "CreateEntry" /\ life["k1"].user = "u2"
    /\ life["k1"].data[1].ValidUntil > life["k1"].data[1].CreationTime
    /\ call.now = life["k1"].data[1].ValidUntil
    /\ ret.err = NoErr /\ ret.data[1].User = "u2"

\* C2: a ValidateSession for a token whose record was created and not removed
\* since, with a clock reading strictly after the record's ValidUntil, returns
\* ErrInvalidKey; once DeleteInvalidKeys has run with such a reading (and the
\* token was not created again), it returns ErrKeyNotFound.
C2_ExpiredThenSwept ==
    \A k \in Tokens :
        (call.op = "ValidateSession" /\ call.key = k)
        => /\ (life[k].op = "CreateEntry" /\ call.now > life[k].data[1].ValidUntil)
                => ret.err = ErrInvalidKey
           /\ life[k].op = "DeleteInvalidKeys" => ret.err = ErrKeyNotFound

C2_Witness ==
    /\ call.op = "ValidateSession" /\ call.key = "k1"
    /\ life["k1"].op = "DeleteInvalidKeys"
    /\ ret.err = ErrKeyNotFound
    /\ life["k2"].op = "CreateEntry" /\ clock > life["k2"].data[1].ValidUntil
    /\ "k2" \in DOMAIN keys

\* C3: once DeleteKey(k) (directly or from EndSession) has returned, and no
\* CreateEntry has used k since, ValidateSession for k returns ErrKeyNotFound.
C3_DeleteKeyThenValidate ==
    \A k \in Tokens :
        (call.op = "ValidateSession" /\ call.key = k /\ life[k].op = "DeleteKey")
        => ret.err = ErrKeyNotFound /\ ret.data = Nil

C3_Witness ==
    /\ call.op = "ValidateSession" /\ call.key = "k2"
    /\ life["k2"].op = "DeleteKey"
    /\ ret.err = ErrKeyNotFound
    /\ "k1" \in DOMAIN keys

\* C4: DeleteEntriesForUser(u) removes exactly the records whose User is u,
\* leaves every other record as it was, returns the number of records it
\* removed, and never an error (0 when u has no record).
C4_DeleteEntriesForUserFrame ==
    [][ Did("DeleteEntriesForUser") =>
          LET u == call'.user
              mine == {k \in DOMAIN keys : keys[k].User = u}
          IN  /\ keys' = Without(keys, mine)
              /\ ret'.count = Cardinality(mine)
              /\ ret'.err = NoErr ]_vars

C4_Witness ==
    /\ call.op = "DeleteEntriesForUser" /\ call.user = "u1"
    /\ ret.count = 1
    /\ \E k \in DOMAIN keys : keys[k].User = "u2"

\* C5: with the memcached handler and no concurrent calls: once a GetData of
\* token k of user u missed the cache and wrote the record to it, and
\* DeleteEntriesForUser(u) has returned after that, a GetData(k) returns
\* ErrKeyNotFound and no data, whatever memcached still holds under the
\* identifier of before.
C5_RevokedNotServed ==
    \A k \in Tokens :
        ( /\ call.op = "Memcached.GetData" /\ call.key = k
          /\ life[k].op = "DeleteEntriesForUser" /\ life[k].pop )
        => /\ ret.err = ErrKeyNotFound
           /\ ret.data = Nil

\* C6: a CreateEntry for a token that has a record returns an error and nil
\* data and leaves the map as it is, and one for a token without a record
\* stores the data it returns; of two concurrent CreateEntry calls for the same
\* token, both called while the token had no record and with no record of it
\* removed since, exactly one succeeds, and the stored record is the one it
\* returned.
C6_CreateEntryFinishes(p) ==
    /\ frame[p].op = "CreateEntry"
    /\ pc[p] \in {"locked", "insert"}
    /\ pc'[p] = "done"

C6_CreateEntryRace ==
    /\ [][ \A p \in Procs :
             C6_CreateEntryFinishes(p) =>
                IF frame[p].key \in DOMAIN keys
                THEN /\ result'[p].err # NoErr
                     /\ result'[p].data = Nil
                     /\ keys' = keys
                ELSE /\ result'[p].err = NoErr
                     /\ result'[p].data # Nil
                     /\ result'[p].data[1].User = frame[p].user
                     /\ keys' = MapPut(keys, frame[p].key, result'[p].data[1]) ]_vars
    /\ [](\A p \in Procs : \A q \in Procs \ {p} :
            ( /\ pc[p] = "done" /\ pc[q] = "done"
              /\ frame[p].op = "CreateEntry" /\ frame[q].op = "CreateEntry"
              /\ frame[p].key = frame[q].key
              /\ frame[p].fresh /\ frame[q].fresh )
            => /\ (result[p].err = NoErr) # (result[q].err = NoErr)
               /\ frame[p].key \in DOMAIN keys
               /\ result[p].err = NoErr => keys[frame[p].key] = result[p].data[1])

C6_Witness ==
    /\ pc["p1"] = "done" /\ pc["p2"] = "done"
    /\ frame["p1"].op = "CreateEntry" /\ frame["p2"].op = "CreateEntry"
    /\ frame["p1"].key = "k1" /\ frame["p2"].key = "k1"
    /\ frame["p1"].fresh /\ frame["p2"].fresh
    /\ frame["p1"].user = "u1" /\ frame["p2"].user = "u2"
    /\ result["p2"].err = NoErr /\ result["p1"].err = ErrKeyExists
    /\ keys["k1"].User = "u2"

C8_DeleteKeyIdempotent ==
    [][ Did("DeleteKey") =>
          LET k == call'.key
          IN  /\ ret'.err = NoErr
              /\ k \notin DOMAIN keys'
              /\ keys' = Without(keys, {k})
              /\ (k \notin DOMAIN keys => keys' = keys)
              /\ DeleteKeyResult(keys', k) = keys' ]_vars

C8_Witness ==
    /\ call.op = "DeleteKey" /\ call.key = "k1"
    /\ life["k1"].op = "DeleteKey"
    /\ "k1" \notin DOMAIN keys
    /\ "k2" \in DOMAIN keys

\* C9: ValidateSession returns ErrKeyNotFound exactly when the map holds no
\* record for the presented key, and ErrInvalidKey exactly when it holds one
\* and the clock reading is after its ValidUntil; in both cases the data is nil.
C9_NotFoundVersusInvalid ==
    call.op = "ValidateSession" =>
        /\ call.key \in Tokens =>
              /\ ret.err = ErrKeyNotFound <=> call.key \notin DOMAIN keys
              /\ ret.err = ErrInvalidKey
                    <=> (call.key \in DOMAIN keys /\ call.now > keys[call.key].ValidUntil)
        /\ call.key = NoKey => ret.err \notin {ErrKeyNotFound, ErrInvalidKey}
        /\ ret.err \in {ErrKeyNotFound, ErrInvalidKey} => ret.data = Nil

C9_Witness ==
    /\ call.op = "ValidateSession" /\ call.key = "k1"
    /\ ret.err = ErrInvalidKey /\ ret.data = Nil
    /\ "k1" \in DOMAIN keys /\ "k2" \notin DOMAIN keys

\* C10: AddKey calls CreateEntry at most once; when CreateEntry fails, AddKey
\* returns CreateEntry's error with nil data and the empty key, and the map is
\* the one that CreateEntry call left.
C10_AddKeyNoRetry ==
    [][ Did("AddKey") =>
          /\ call'.creates <= 1
          /\ call'.creates = 1 =>
                LET created == CreateEntryResult(keys, call'.user, call'.key, call'.dur)
                IN  /\ keys' = created.keys
                    /\ ret'.err = created.err
                    /\ created.err # NoErr =>
                          ret'.data = Nil /\ ret'.key = NoKey /\ keys' = keys
          /\ call'.creates = 0 => keys' = keys ]_vars

C10_Witness ==
    /\ call.op = "AddKey" /\ call.creates = 1
    /\ ret.err = ErrKeyExists /\ ret.data = Nil /\ ret.key = NoKey
    /\ call.key \in DOMAIN keys /\ keys[call.key].User # call.user

\* C11: when the random source gives no bytes, GenRandomBase64 returns an error
\* and the empty string, AddKey returns that error with nil data and the empty
\* key, and it calls no CreateEntry: the record set stays as it was.
C11_NoEntropyNoKey ==
    [][ (Did("AddKey") /\ call'.rand = "failed") =>
          /\ GenRandomBase64(NoBytes).err # NoErr
          /\ GenRandomBase64(NoBytes).key = NoKey
          /\ ret'.err = GenRandomBase64(NoBytes).err
          /\ ret'.data = Nil /\ ret'.key = NoKey
          /\ call'.creates = 0
          /\ keys' = keys ]_vars

C11_Witness ==
    /\ call.op = "AddKey" /\ call.rand = "failed"
    /\ ret.err = ErrRandom /\ ret.data = Nil /\ ret.key = NoKey
    /\ "k1" \in DOMAIN keys /\ "k2" \notin DOMAIN keys

\* C12: through the memcached handler, once CreateEntry(u, k, d) has returned a
\* nil error, a later GetData(k) of the same caller (k not deleted in between)
\* returns a record whose User is u, whether or not the Set of CreateEntry
\* succeeded; and a CreateEntry whose parent call fails writes nothing to the
\* cache.
C12_CreateThenGet ==
    /\ [](\A k \in Tokens :
            ( /\ call.op = "Memcached.GetData" /\ call.key = k
              /\ life[k].op = "CreateEntry" )
            => /\ ret.err = NoErr
               /\ ret.data # Nil
               /\ ret.data[1].User = life[k].user)
    /\ [][ (Did("Memcached.CreateEntry") /\ ret'.err # NoErr) => cache' = cache ]_vars

\* C13: GetData of the memcached handler returns the cached copy on a hit
\* without a call of the parent; on a miss it calls the parent once, and a
\* record the parent returned is written to the cache with a time to live of
\* at most the record's remaining validity.
C13_ReadThrough ==
    [][ Did("Memcached.GetData") =>
          LET memcachedKey == formatKeyEntry(call'.key)
          IN  /\ call'.cacheGet = "hit" =>
                    /\ call'.parent = 0
                    /\ ret'.err = NoErr
                    /\ ret'.data = <<parseJSONData(cache[memcachedKey].value)>>
              /\ call'.cacheGet = "miss" =>
                    /\ call'.parent = 1
                    /\ call'.set = "ok" =>
                          /\ cache'[memcachedKey].value = formatJSONData(ret'.data[1])
                          /\ cache'[memcachedKey].exp - clock
                                <= ret'.data[1].ValidUntil - clock ]_vars

\* C14: no operation of the memcached handler returns a failure of the
\* memcached client: when Get, Set or Delete fails (not a plain miss), GetData,
\* CreateEntry and DeleteKey return the data and error of the parent's call and
\* do to the parent what that call does, and GetData writes nothing to the
\* cache after a Get error that is no miss.
C14_ClientFailuresHidden ==
    [][ /\ (Did("Memcached.GetData") /\ (call'.cacheGet = "error" \/ call'.set = "failed")) =>
              LET parent == GetDataResult(keys, call'.key)
              IN  /\ call'.parent = 1
                  /\ ret'.data = parent.data /\ ret'.err = parent.err
                  /\ cache' = cache
        /\ (Did("Memcached.CreateEntry") /\ call'.set = "failed") =>
              LET created == CreateEntryResult(keys, call'.user, call'.key, call'.dur)
              IN  /\ call'.parent = 1
                  /\ ret'.data = created.data /\ ret'.err = created.err
                  /\ keys' = created.keys
        /\ (Did("Memcached.DeleteKey") /\ call'.del = "failed") =>
              /\ call'.parent = 1
              /\ ret'.err = NoErr
              /\ keys' = DeleteKeyResult(keys, call'.key)
        /\ ret'.err \notin {ErrMemcached, ErrCacheMiss} ]_vars

C14_Witness ==
    /\ call.op = "Memcached.DeleteKey" /\ call.del = "failed"
    /\ ret.err = NoErr
    /\ call.key \notin DOMAIN keys
    /\ formatKeyEntry(call.key) \in DOMAIN cache

\* C15: in IsValidSession and IsValidSessionLastSeen, when the lookup finds the
\* key and the key is still valid but the update of last_seen fails, the call
\* returns the user id together with the update's error; when the lookup fails
\* or the key is absent or expired, the returned user id is nil.
C15_UserWithUpdateError ==
    [][ (Did("IsValidSession") \/ Did("IsValidSessionLastSeen")) =>
          LET k == call'.key
              lookedUp == call'.db \notin {"exec", "time"} /\ k \in DOMAIN sessions
              valid == lookedUp /\ clock < sessions[k][call'.column] + call'.dur
          IN  /\ (valid /\ call'.db = "update") =>
                    /\ ret'.id = <<sessions[k].user_id>>
                    /\ ret'.err = ErrSQL
              /\ ~valid => ret'.id = Nil ]_vars

C15_Witness ==
    /\ call.op = "IsValidSessionLastSeen" /\ call.db = "update"
    /\ ret.id = <<"u2">> /\ ret.err = ErrSQL
    /\ sessions[call.key].last_seen < clock

\* C16: IsValidSession(d, k) returns k's user exactly when k has a row and now
\* is before login_time + d, whatever last_seen is; IsValidSessionLastSeen(d, k)
\* exactly when k has a row and now is before last_seen + d, whatever
\* login_time is; a successful call of either sets last_seen of k's row to now
\* and changes nothing else, and no call of either changes a login_time. So
\* IsValidSessionLastSeen goes on accepting a key after IsValidSession stopped.
C16_TwoPolicies ==
    [][ (Did("IsValidSession") \/ Did("IsValidSessionLastSeen")) =>
          LET k == call'.key
              d == call'.dur
              has == k \in DOMAIN sessions
          IN  /\ (Did("IsValidSession") /\ call'.db = "none") =>
                    /\ call'.column = "login_time"
                    /\ ret'.id # Nil <=> (has /\ clock < sessions[k].login_time + d)
              /\ (Did("IsValidSessionLastSeen") /\ call'.db = "none") =>
                    /\ call'.column = "last_seen"
                    /\ ret'.id # Nil <=> (has /\ clock < sessions[k].last_seen + d)
              /\ ret'.id # Nil => (has /\ ret'.id = <<sessions[k].user_id>>)
              /\ (ret'.id # Nil /\ ret'.err = NoErr) =>
                    sessions' = [sessions EXCEPT ![k].last_seen = clock]
              /\ DOMAIN sessions' = DOMAIN sessions
              /\ \A e \in DOMAIN sessions :
                    /\ sessions'[e].login_time = sessions[e].login_time
                    /\ sessions'[e].user_id = sessions[e].user_id ]_vars

C16_Witness ==
    /\ call.op = "IsValidSessionLastSeen" /\ call.db = "none"
    /\ ret.id # Nil /\ ret.err = NoErr
    /\ clock >= sessions[call.key].login_time + call.dur
    /\ sessions[call.key].last_seen = clock

\* C17: CleanSessions(d), reading the clock as now, removes exactly the rows
\* with login_time + d <= now, which are the rows IsValidSession(d, .) rejects
\* at that instant, and returns their number; a row it removes can be one that
\* IsValidSessionLastSeen(d, .) would accept.
C17_CleanSessionsExact ==
    [][ (Did("CleanSessions") /\ call'.db = "none") =>
          LET d == call'.dur
              gone == {k \in DOMAIN sessions : sessions[k].login_time + d <= clock}
          IN  /\ sessions' = [k \in DOMAIN sessions \ gone |-> sessions[k]]
              /\ ret'.count = Cardinality(gone)
              /\ ret'.err = NoErr
              /\ \A k \in DOMAIN sessions :
                    k \in gone <=>
                        isValidSessionFromColumn(sessions, clock, d, k,
                                                 "login_time", "none").id = Nil ]_vars

C17_Witness ==
    /\ call.op = "CleanSessions" /\ call.db = "none"
    /\ \E k \in DOMAIN call.removed :
          /\ isValidSessionFromColumn(call.removed, call.now, call.dur, k,
                                      "last_seen", "none").id # Nil
          /\ k \notin DOMAIN sessions
    /\ sessions # <<>>

\* C18: UpdateSessionKey(old), when old has a row (and the generator gives a
\* key that is not in the table and the statement does not fail), returns the
\* new key; after it old has no row, the new key's row has the user_id and
\* last_seen of before and login_time = now, and there are as many rows as
\* before. When old has no row it returns an error with the empty string and
\* leaves the table as it was.
C18_UpdateSessionKey ==
    [][ Did("UpdateSessionKey") =>
          LET old == call'.key
              new == call'.newKey
          IN  /\ ( /\ old \in DOMAIN sessions
                   /\ call'.rand = "ok" /\ call'.db = "none"
                   /\ new \notin DOMAIN sessions ) =>
                    /\ ret'.err = NoErr /\ ret'.key = new
                    /\ old \notin DOMAIN sessions'
                    /\ new \in DOMAIN sessions'
                    /\ sessions'[new] = [user_id |-> sessions[old].user_id,
                                         last_seen |-> sessions[old].last_seen,
                                         login_time |-> clock]
                    /\ Cardinality(DOMAIN sessions') = Cardinality(DOMAIN sessions)
                    /\ \A k \in DOMAIN sessions \ {old} : sessions'[k] = sessions[k]
              /\ old \notin DOMAIN sessions =>
                    /\ ret'.err # NoErr /\ ret'.key = NoKey
                    /\ sessions' = sessions ]_vars

C18_Witness ==
    /\ call.op = "UpdateSessionKey" /\ ret.err = NoErr
    /\ ret.key # call.key /\ ret.key \in DOMAIN sessions /\ call.key \notin DOMAIN sessions
    /\ sessions[ret.key].last_seen < sessions[ret.key].login_time
    /\ Cardinality(DOMAIN sessions) = 1

\* C19 as stated: with either user handler, after Insert(name, .., pw) returned
\* id and a nil error, Validate(name, pw) returns (id, nil), Validate(name, pw')
\* with another password returns (NoUserID, nil), and Validate of a username
\* that was never inserted returns (NoUserID, ErrUserNotFound).
C19_InsertThenValidate ==
    (call.op = "Validate" /\ call.db = "none") =>
        LET n == call.name
        IN  IF known[n] = Nil
            THEN ret.uid = NoUserID /\ ret.err = ErrUserNotFound
            ELSE IF call.pw = known[n][1].pw
            THEN ret.uid = known[n][1].id /\ ret.err = NoErr
            ELSE ret.uid = NoUserID /\ ret.err = NoErr

\* C19, amended: the same, but the id Validate(name, pw) returns is the one
\* Insert returned only when Insert returned an id other than NoUserID. When
\* SQLUserHandler.Insert could not read the new id back it returns NoUserID with
\* a nil error, and Validate(name, pw) then returns the stored id, which is not
\* NoUserID.
C19_InsertThenValidateStoredID ==
    (call.op = "Validate" /\ call.db = "none") =>
        LET n == call.name
        IN  IF known[n] = Nil
            THEN ret.uid = NoUserID /\ ret.err = ErrUserNotFound
            ELSE IF call.pw = known[n][1].pw
            THEN /\ ret.err = NoErr
                 /\ ret.uid # NoUserID
                 /\ known[n][1].id # NoUserID => ret.uid = known[n][1].id
                 /\ known[n][1].id = NoUserID =>
                        (userHandler = "sql" /\ ret.uid = users[n].id)
            ELSE ret.uid = NoUserID /\ ret.err = NoErr

C19_Witness ==
    /\ call.op = "Validate" /\ call.db = "none"
    /\ known[call.name] # Nil
    /\ known[call.name][1].id = NoUserID
    /\ call.pw = known[call.name][1].pw
    /\ ret.uid # NoUserID /\ ret.err = NoErr

\* C20: on RedisUserHandler, in every interleaving of Insert calls, an Insert
\* for a username that has an account when it is called fails and leaves the
\* stored account as it is, and of concurrent Insert calls for one username at
\* most one returns a nil error.
C20_InsertOnce ==
    /\ [](\A p \in Procs :
            (pc[p] = "done" /\ frame[p].op = "Insert" /\ ~frame[p].fresh)
            => result[p].err # NoErr)
    /\ [][ \A p \in Procs :
            (frame[p].op = "Insert" /\ ~frame[p].fresh /\ pc'[p] # pc[p])
            => users' = users ]_vars
    /\ [](\A p \in Procs : \A q \in Procs \ {p} :
            ( /\ pc[p] = "done" /\ pc[q] = "done"
              /\ frame[p].op = "Insert" /\ frame[q].op = "Insert"
              /\ frame[p].name = frame[q].name )
            => ~(result[p].err = NoErr /\ result[q].err = NoErr))

\* C21: is_active never influences verification. For every store that differs
\* from the present one only in is_active values, Validate, CheckUserPassword
\* and CheckDefaultUserPassword return the same id, match result and error for
\* every username, id and password.
C21_IsActiveIgnored ==
    \A f \in [DOMAIN users -> BOOLEAN] :
        LET other_t == [n \in DOMAIN users |-> [users[n] EXCEPT !.is_active = f[n]]]
        IN  \A n \in Names, uid \in UIDs, pw \in Passwords,
               failed \in {"none", "exec", "check"} :
                /\ SQLUserValidateResult(users, n, pw, failed)
                    = SQLUserValidateResult(other_t, n, pw, failed)
                /\ CheckUserPasswordResult(users, uid, pw, failed)
                    = CheckUserPasswordResult(other_t, uid, pw, failed)
                /\ CheckDefaultUserPasswordResult(users, n, pw, failed)
                    = CheckDefaultUserPasswordResult(other_t, n, pw, failed)

\* An inactive account whose password has just been verified as correct.
C21_Witness ==
    /\ call.op = "CheckDefaultUserPassword"
    /\ call.name \in DOMAIN users
    /\ ~users[call.name].is_active
    /\ ret.ok /\ ret.err = NoErr /\ ret.uid = users[call.name].id

\* A step of LoginDefaultUser that is seen in the state.
LoginStep ==
    /\ call'.op = "LoginDefaultUser"
    /\ clock' = clock
    /\ <<call, ret, users, sessions>>' # <<call, ret, users, sessions>>

\* C22: LoginDefaultUser(uid, sc) for an id no user row has returns the empty
\* string and sql.ErrNoRows and creates no session; on every error path it
\* returns the empty string; on success last_login of the user is now and
\* exactly one new session row for uid exists.
C22_LoginDefaultUser ==
    [][ LoginStep =>
        /\ (call'.db = "none" /\ RowsWithID(users, call'.uid) = {})
            => (ret'.key = NoKey /\ ret'.err = ErrNoRows /\ sessions' = sessions)
        /\ ret'.err # NoErr => ret'.key = NoKey
        /\ ret'.err = NoErr =>
            /\ RowsWithID(users', call'.uid) # {}
            /\ \A n \in RowsWithID(users', call'.uid) : users'[n].last_login = clock
            /\ DOMAIN sessions' = DOMAIN sessions \cup {ret'.key}
            /\ ret'.key \notin DOMAIN sessions
            /\ sessions'[ret'.key].user_id = call'.uid
            /\ \A k \in DOMAIN sessions : sessions'[k] = sessions[k] ]_vars

\* Once the context is cancelled the daemon returns, no helper stays behind,
\* and without a context the daemon sweeps again and again.
DaemonStopsAndHelpersEnd ==
    /\ (daemon.ctx = "cancelled") ~> (daemon.pc = "returned")
    /\ [](daemon.sending > 0 => daemon.next < NextCapacity)
    /\ (daemon.pc = "returned") ~> (daemon.sleeping = 0 /\ daemon.sending = 0)
    /\ [](daemon.ctx = "nil" => daemon.pc # "returned")
    /\ [](daemon.ctx = "nil" => <>(daemon.pc = "sleep"))

RedisHasRecord(db, user, key) ==
    /\ <<RedisSessionPrefix, key>> \in DOMAIN db
    /\ db[<<RedisSessionPrefix, key>>].fields.User = FormatUser(user)
    /\ db[<<RedisSessionPrefix, key>>].exp # NoExpiry

\* C24: on RedisSessionHandler, after DeleteEntriesForUser(u) has returned,
\* GetData returns ErrKeyNotFound for every token whose record a CreateEntry for
\* u made and whose TTL has not elapsed, and the count returned is the number
\* of u's session records removed.
C24_RedisDeleteEntriesForUser ==
    [][ (call'.op = "DeleteEntriesForUser" /\ clock' = clock /\ ret'.err = NoErr)
        => LET had == {k \in Tokens : RedisHasRecord(redis.db, call'.user, k)}
               has == {k \in Tokens : RedisHasRecord(redis'.db, call'.user, k)}
           IN  /\ \A k \in had :
                    RedisGetDataResult(redis'.db, k, FALSE).err = ErrKeyNotFound
               /\ ret'.count = Cardinality(had \ has) ]_vars

\* C26: RedisSessionHandler.CreateEntry with a token that already has a live
\* record returns an error and leaves the record's User, CreationTime,
\* ValidUntil and TTL as they are.
C26_RedisCreateEntryConflict ==
    [][ ( /\ call'.op = "CreateEntry" /\ clock' = clock
          /\ <<RedisSessionPrefix, call'.key>> \in DOMAIN redis.db )
        => /\ ret'.err # NoErr
           /\ <<RedisSessionPrefix, call'.key>> \in DOMAIN redis'.db
           /\ redis'.db[<<RedisSessionPrefix, call'.key>>]
                = redis.db[<<RedisSessionPrefix, call'.key>>] ]_vars

\* C30: once a CreateEntry for user u and its goroutine have completed, the set
\* "usessions:<u>" has no member whose record "skey:<member>" is not there.
C30_RedisUserSetPruned ==
    [][ ( /\ call'.op = "background" /\ clock' = clock /\ call'.db = "none"
          /\ redis'.jobs = {} )
        => \A member \in RedisSMembers(redis'.db,
                                       <<RedisUserPrefix, FormatUser(call'.user)>>) :
                <<RedisSessionPrefix, member>> \in DOMAIN redis'.db ]_vars

\* C25: on MemcachedSessionHandler, in every interleaving: once DeleteKey(k) or
\* DeleteEntriesForUser(user of k) has returned, every GetData(k) that starts
\* afterwards, with no record made for k since, returns ErrKeyNotFound.
C25_NoStaleCacheEntry ==
    \A p \in Procs :
        ( /\ pc[p] = "done" /\ frame[p].op = "GetData" /\ frame[p].fresh
          /\ life[frame[p].key].op \in {"DeleteKey", "DeleteEntriesForUser"} )
        => result[p].err = ErrKeyNotFound

\* C29: every updateCurrentSessionKeyIdentifier yields an identifier greater
\* than the one before, so that after a DeleteEntriesForUser no entry of the
\* cache is reachable under the current identifier.
C29_IdentifierIncreases ==
    [][ call'.op = "Memcached.DeleteEntriesForUser"
        => /\ mcIdent' > mcIdent
           /\ \A k \in Tokens : <<SessionPrefix, mcIdent', k>> \notin DOMAIN cache' ]_vars

\* C27: when the row of the key is deleted by another connection after
\* isValidSessionFromColumn found it valid and before its update of last_seen
\* runs, the call returns the user id with a nil error, the update changes no
\* row, and the row is not created again: the key is still absent afterwards.
C27_TouchAfterDelete ==
    [][\A p \in Checkers :
        (/\ pc[p] = "Exec" /\ pc'[p] = "done"
         /\ frame'[p].db = "none"
         /\ frame[p].key \notin DOMAIN sessions)
        => /\ frame[p].data # Nil
           /\ result'[p].id = frame[p].data
           /\ result'[p].err = NoErr
           /\ result'[p].count = 0
           /\ frame[p].key \notin DOMAIN sessions'
           /\ sessions' = sessions]_vars

C27_Witness ==
    \E p \in Checkers :
        /\ pc[p] = "done" /\ frame[p].op = "IsValidSession"
        /\ frame[p].db = "none" /\ ~frame[p].fresh
        /\ result[p].id # Nil /\ result[p].err = NoErr /\ result[p].count = 0
        /\ frame[p].key \notin DOMAIN sessions

\* C28: every operation of InMemoryHandler has released the reader/writer
\* lock when it returns, on every path, the "Key already exists" path of
\* CreateEntry included, and never takes the lock while it holds it; so under
\* fair scheduling every invoked GetData, CreateEntry, DeleteEntriesForUser,
\* DeleteInvalidKeys and DeleteKey returns in the end.
Invoked(p) == pc[p] \in {"Lock", "RLock", "locked", "rlocked", "insert"}

Holds(p) == mutex.w = p \/ p \in mutex.r

C28_LockReleased ==
    /\ [](\A p \in Procs :
            /\ pc[p] \in {"idle", "done", "Lock", "RLock"} => ~Holds(p)
            /\ ~(mutex.w = p /\ p \in mutex.r)
            /\ mutex.w # "" => mutex.r = {})
    /\ \A p \in Procs : Invoked(p) ~> pc[p] = "done"

C28_Witness ==
    /\ pc["p1"] = "done" /\ frame["p1"].op = "CreateEntry" /\ result["p1"].err = ErrKeyExists
    /\ ~Holds("p1")
    /\ pc["p2"] = "locked"

\* C31: on RedisSessionHandler, whenever the goroutines of all CreateEntry
\* calls for a user have completed, the remaining TTL of the set
\* "usessions:<user>" is at least the remaining TTL of every live session
\* record of the user, for every interleaving of CreateEntry calls.
AtLeast(a, b) == a = NoExpiry \/ (b # NoExpiry /\ a >= b)

C31_UserSetOutlivesSessions ==
    \A user \in Users :
        (/\ call.db # "failed"
         /\ \A job \in redis.jobs : job.user # user)
        => \A key \in Tokens :
            RedisHasRecord(redis.db, user, key)
            => AtLeast(RedisTTL(redis.db, <<RedisUserPrefix, FormatUser(user)>>, clock),
                       RedisTTL(redis.db, <<RedisSessionPrefix, key>>, clock))

\* C32: an SQLSessionHandler constructed with lockDB = true serializes all
\* access to the database: no two of its operations execute their statement at
\* the same time; constructed with lockDB = false it takes no lock at all.
C32_AllSerialized ==
    /\ blockDB => \A p, q \in Procs : InStatement(p) /\ InStatement(q) => p = q
    /\ ~blockDB => mutex = MutexFree

\* C32, as the code has it: with lockDB = true an operation that writes (Init,
\* CreateEntry, DeleteEntriesForUser, DeleteInvalidKeys, DeleteKey) executes its
\* statement while no other operation executes one; GetData calls hold the
\* lock shared and may execute together. With lockDB = false no lock is taken.
C32_WritersSerialized ==
    /\ blockDB => \A p, q \in Procs :
                    InStatement(p) /\ InStatement(q) /\ p # q
                    => frame[p].op = "GetData" /\ frame[q].op = "GetData"
    /\ blockDB => \A p \in Procs :
                    /\ InStatement(p) /\ frame[p].op # "GetData" => mutex.w = p
                    /\ InStatement(p) /\ frame[p].op = "GetData" => p \in mutex.r
                    /\ ~InStatement(p) => mutex.w # p /\ p \notin mutex.r
    /\ ~blockDB => mutex = MutexFree

\* Two GetData calls execute their query together under lockDB.
C32_Witness ==
    /\ blockDB
    /\ pc["p1"] = "rlocked" /\ pc["p2"] = "rlocked"
    /\ frame["p1"].op = "GetData" /\ frame["p2"].op = "GetData"

\* C33: every record a backend stores through CreateEntry has ValidUntil >=
\* CreationTime in every reachable state, and its User and CreationTime do not
\* change between its creation and its deletion.
C33_RecordInvariant ==
    /\ [](\A k \in DOMAIN keys : keys[k].ValidUntil >= keys[k].CreationTime)
    /\ [][\A k \in (DOMAIN keys) \cap DOMAIN keys' :
            /\ keys'[k].User = keys[k].User
            /\ keys'[k].CreationTime = keys[k].CreationTime]_vars

\* C34: per token, what SessionController.ValidateSession reports only moves
\* from valid to ErrInvalidKey to ErrKeyNotFound: while the clock does not go
\* back and no CreateEntry makes a new record for the token, a token that
\* got ErrInvalidKey does not validate later, and a token that got
\* ErrKeyNotFound neither validates later nor gets ErrInvalidKey.
Verdict(m, now, key) == ValidateSessionResult(now, GetDataResult(m, key)).err

C34_VerdictOnlyDecays ==
    [][/\ (call'.op = "ValidateSession" /\ call'.key \in Tokens /\ clock' = clock)
            => ret'.err = Verdict(keys, clock, call'.key)
       /\ \A k \in Tokens :
            ~(k \notin DOMAIN keys /\ k \in DOMAIN keys')
            => /\ Verdict(keys, clock, k) = ErrInvalidKey
                    => Verdict(keys', clock', k) \in {ErrInvalidKey, ErrKeyNotFound}
               /\ Verdict(keys, clock, k) = ErrKeyNotFound
                    => Verdict(keys', clock', k) = ErrKeyNotFound]_vars

\* ValidateSession reports ErrKeyNotFound for a token whose record was swept
\* by DeleteInvalidKeys after it expired.
C34_Witness ==
    /\ call.op = "ValidateSession" /\ call.key \in Tokens
    /\ ret.err = ErrKeyNotFound
    /\ life[call.key].op = "DeleteInvalidKeys"
    /\ clock = MaxTime

\* What MemcachedSessionHandler.GetData returns for key when the client
\* answers: the parsed cached copy on a hit, the parent's answer on a miss.
MCLookup(c, m, now, ident, key) ==
    LET memcachedKey == <<SessionPrefix, ident, key>>
    IN  IF memcachedKey \in DOMAIN c /\ now < c[memcachedKey].exp
        THEN [data |-> <<parseJSONData(c[memcachedKey].value)>>, err |-> NoErr, hit |-> TRUE]
        ELSE [data |-> GetDataResult(m, key).data, err |-> GetDataResult(m, key).err,
              hit |-> FALSE]

\* C35: MemcachedSessionHandler.DeleteEntriesForUser(u) makes the cache entries
\* of all users unreachable and removes only u's records from the parent:
\* afterwards GetData for a token of another user still returns that user's
\* record with a nil error, read through from the parent, and the count
\* returned is the parent's count.
C35_SoftInvalidation ==
    [][ (call'.op = "Memcached.DeleteEntriesForUser" /\ clock' = clock)
        => LET u == call'.user
               parent == DeleteEntriesForUserResult(keys, u)
           IN  /\ keys' = parent.keys
               /\ ret'.count = parent.removed /\ ret'.err = NoErr
               /\ \A k \in DOMAIN keys : keys[k].User # u => k \in DOMAIN keys'
               /\ \A k \in Tokens : ~MCLookup(cache', keys', clock', mcIdent', k).hit
               /\ \A k \in DOMAIN keys :
                    keys[k].User # u
                    => /\ MCLookup(cache', keys', clock', mcIdent', k).err = NoErr
                       /\ MCLookup(cache', keys', clock', mcIdent', k).data = <<keys[k]>>
      ]_vars

C37_FailedCreateLeavesNothing ==
    [][ (call'.op = "CreateEntry" /\ clock' = clock /\ ret'.err # NoErr)
        => LET redisKey == <<RedisSessionPrefix, call'.key>>
           IN  /\ redisKey \notin DOMAIN redis.db
                    => RedisGetDataResult(redis'.db, call'.key, FALSE).err = ErrKeyNotFound
               /\ redisKey \in DOMAIN redis'.db
                    => redis'.db[redisKey].exp # NoExpiry ]_vars

\* C38: SQLConnector.CleanSessions, SQLSessionHandler.DeleteEntriesForUser and
\* SQLSessionHandler.DeleteInvalidKeys return a count >= 0 whenever the error
\* they return is nil, and a non-nil error whenever the count is -1.
C38_CountOrError ==
    [][ /\ (call'.op = "CleanSessions" /\ clock' = clock)
            => /\ ret'.err = NoErr => ret'.count >= 0
               /\ ret'.count = 0 - 1 => ret'.err # NoErr
        /\ \A p \in Procs :
            (/\ InStatement(p) /\ pc'[p] = "done"
             /\ frame[p].op \in {"DeleteEntriesForUser", "DeleteInvalidKeys"})
            => /\ result'[p].err = NoErr => result'[p].count >= 0
               /\ result'[p].count = CountFailed => result'[p].err # NoErr ]_vars

\* C39: for every record the parent holds, GetData through the
\* MemcachedSessionHandler returns on a cache hit the User, CreationTime and
\* ValidUntil the parent's GetData returns (formatJSONData then parseJSONData
\* is a lossless round trip), so the validity verdict for a token is the same
\* with and without the cache.
C39_CacheHitEqualsParent ==
    \A k \in DOMAIN keys :
        LET got == MCLookup(cache, keys, clock, mcIdent, k)
            parent == GetDataResult(keys, k)
        IN  got.hit
            => /\ got.data = parent.data
               /\ ValidateSessionResult(clock, got).err
                    = ValidateSessionResult(clock, parent).err

====
